---------------------------- MODULE Spec2Model ----------------------------
(***************************************************************************)
(* go-birthday: the HTTP feed cache (internal/server/server.go) and the    *)
(* sync pipeline (internal/engine/engine.go).                              *)
(*                                                                         *)
(* Spec      : CalendarServer -- concurrent Update calls and concurrent    *)
(*             handleCalendarRequest calls on one server.                  *)
(* SpecSync  : Generator.RunSync -- one call of the pipeline on a stream   *)
(*             of card records, with its context cancelled at any moment.  *)
(***************************************************************************)
EXTENDS Integers, Sequences, FiniteSets, TLC

(***************************************************************************)
(* Bounds of the server model.                                             *)
(***************************************************************************)
MaxUpdates == 2        \* Update calls started in one behaviour
MaxClock   == 1        \* the wall clock runs over the seconds 0..MaxClock

Readers == {"r1", "r2"}    \* goroutines running handleCalendarRequest
Writers == {"w1", "w2"}    \* goroutines running Update

(***************************************************************************)
(* Program constants (net/http status codes used by the handler).          *)
(***************************************************************************)
StatusOK                 == 200
StatusNotModified        == 304
StatusMethodNotAllowed   == 405
StatusServiceUnavailable == 503

\* internal/config/config.go
RetryAfterSeconds   == "10"
AllowedMethods      == "GET, HEAD"
MimeTextCalendar    == "text/calendar; charset=utf-8"
MimeNoSniff         == "nosniff"
CacheControlPrivate == "private, no-cache"
HTTPMsgInitializing == "Calendar initializing, please try again shortly."
HTTPMsgMethodNotAll == "Method Not Allowed"
MimeTextPlain       == "text/plain; charset=utf-8"   \* set by http.Error

Methods == {"GET", "HEAD", "POST"}

(***************************************************************************)
(* Byte strings.  Feeds are the feed documents handed to Update; one is a  *)
(* strict prefix of the other, so a partially written body is              *)
(* distinguishable from every complete one.                                *)
(***************************************************************************)
Feeds == {<<65>>, <<65, 66>>}

(***************************************************************************)
(* sha256.Sum256: a two-byte stand-in for the digest, computed from every  *)
(* byte of the input; it has no collision among the modelled feeds, as     *)
(* SHA-256 has none among real ones.                                       *)
(***************************************************************************)
RECURSIVE Mix(_, _)
Mix(h, data) ==
    IF data = <<>> THEN h
    ELSE Mix((h * 31 + Head(data)) % 65536, Tail(data))

Sum256(data) == LET h == Mix(7, data) IN <<h \div 256, h % 256>>

\* hex.EncodeToString: two lower-case hex digits per byte
HexChars == <<"0", "1", "2", "3", "4", "5", "6", "7",
              "8", "9", "a", "b", "c", "d", "e", "f">>

RECURSIVE EncodeToString(_)
EncodeToString(bytes) ==
    IF bytes = <<>> THEN <<>>
    ELSE <<HexChars[(Head(bytes) \div 16) + 1], HexChars[(Head(bytes) % 16) + 1]>>
           \o EncodeToString(Tail(bytes))

\* config.FormatETag = `"%s"`
FormatETag(hex) == <<"\"">> \o hex \o <<"\"">>

(***************************************************************************)
(* http.TimeFormat.  The clock counts whole seconds (Format drops the      *)
(* sub-second part); the formatted text is two decimal digits followed by  *)
(* "GMT", and parsing accepts exactly that shape.                          *)
(***************************************************************************)
DecChars == <<"0", "1", "2", "3", "4", "5", "6", "7", "8", "9">>

FormatHTTPTime(sec) ==
    <<DecChars[((sec \div 10) % 10) + 1], DecChars[(sec % 10) + 1], "G", "M", "T">>

DigitValue(c) == CHOOSE n \in 0..9 : DecChars[n + 1] = c

ParseHTTPTime(s) ==
    IF /\ Len(s) = 5
       /\ \E n \in 0..9 : DecChars[n + 1] = s[1]
       /\ \E n \in 0..9 : DecChars[n + 1] = s[2]
       /\ SubSeq(s, 3, 5) = <<"G", "M", "T">>
    THEN [ok |-> TRUE,  sec |-> DigitValue(s[1]) * 10 + DigitValue(s[2])]
    ELSE [ok |-> FALSE, sec |-> 0]

(***************************************************************************)
(* cacheItem, and the item Update builds from its argument and the clock.  *)
(* Items are immutable once built, so a *cacheItem is modelled by the      *)
(* sequence holding the item it points to; the nil pointer is <<>>.        *)
(***************************************************************************)
ETagOf(data) == FormatETag(EncodeToString(Sum256(data)))

\* mutant: the digest is stored without the quotes of config.FormatETag
NewCacheItem_Unquoted(data, now) ==
    [data         |-> data,
     etag         |-> EncodeToString(Sum256(data)),
     lastModified |-> FormatHTTPTime(now)]

NewCacheItem(data, now) ==
    [data         |-> data,
     etag         |-> ETagOf(data),
     lastModified |-> FormatHTTPTime(now)]

NoItem == <<>>

\* mutant: the pointer stored is nil
PointerTo_Nil(item) == NoItem

\* server.go:95-104: item := &cacheItem{...}, the pointer s.cache.Store sets
PointerTo(item) == <<item>>
Deref(p) == p[1]

(***************************************************************************)
(* Request header values the clients send.                                 *)
(***************************************************************************)
NoHeader    == <<>>                       \* r.Header.Get returns ""
Garbage     == <<"x">>                    \* neither an ETag nor a date
IfNoneMatchValues     == {NoHeader, Garbage} \cup {ETagOf(f) : f \in Feeds}
IfModifiedSinceValues == {NoHeader, Garbage} \cup {FormatHTTPTime(t) : t \in 0..MaxClock}

VARIABLES
    cache,      \* s.cache: pointer to the installed item, or NoItem
    clock,      \* wall clock, in seconds
    completed,  \* history: [data, at] of every Update call that has returned
    stored,     \* history: number of Update calls that have returned
    latest,     \* history: <<[data, at]>> of the Update that returned last
    wpc,        \* per writer: "idle" | "built"
    wdata,      \* per writer: the argument of its Update call
    wnow,       \* per writer: the value time.Now() returned to it
    witem,      \* per writer: pointer to the item it built (local until the Store)
    rpc,        \* per reader: "idle" | "load" | "respond"
    rmethod,    \* per reader: r.Method
    ritem,      \* per reader: the pointer s.cache.Load() returned
    response    \* the response written by the step just taken (NoResponse if none)

serverVars == <<cache, clock, completed, stored, latest, wpc, wdata, wnow, witem,
                rpc, rmethod, ritem, response>>

VARIABLES
    ctxErr,     \* ctx.Err(): NilError until the context is cancelled
    spc,        \* position of the RunSync call
    gen,        \* the Generator
    cfg,        \* the SyncConfig argument
    acq,        \* what acquireStream returned: [err, ok]
    stream,     \* the records not yet read from the acquired reader
    broken,     \* the reader fails, on every Read, once those records are read
    input,      \* history: the records of the reader as acquired
    opens,      \* history: os.Open and Fetcher.Fetch calls made
    closes,     \* history: reader.Close() calls made
    syncNow,    \* g.Clock.Now(), read at line 116
    decodes,    \* history: Decode calls that read a record or the end of the stream
    contacts,   \* generateCalendar's contacts
    children,   \* cal.Children
    today,      \* stats.today
    result,     \* the four values RunSync returned
    cancelledAtCall,  \* history: the context was cancelled when RunSync was called
    cancelSeen  \* history: position and Decode count when the context was cancelled

engineVars == <<ctxErr, spc, gen, cfg, acq, stream, broken, input, opens, closes, syncNow,
                decodes, contacts, children, today, result, cancelledAtCall, cancelSeen>>

VARIABLES
    lpc,        \* position of the call of the date logic: "idle" | "called" | "returned"
    largs,      \* its arguments: now, birthDate, yearKnown
    lout        \* what calculateNextOccurrence and createEvents returned

logicVars == <<lpc, largs, lout>>

VARIABLES
    appCtx,     \* app.Ctx.Err(): NilError until the application context is cancelled
    apc,        \* per goroutine that syncs: its position in backgroundWorker / performSync
    ares,       \* per goroutine: what its last RunSync returned (NoOutcome: nothing yet)
    trigs,      \* history, per goroutine: triggers received by the performSync call running
    calls,      \* history, per goroutine: RunSync invocations made by that call
    acqs,       \* history, per goroutine: stream acquisitions made by that call
    Contacts,   \* app.Contacts
    wlock,      \* app.ContactsMut: the goroutine holding Lock, "" if none
    rlocks,     \* app.ContactsMut: the number of RLock holders
    dpc,        \* the contacts window: "closed" | "sized" | "copied" | "open"
    display,    \* displayContacts, the window's own slice
    dsnap,      \* history: app.Contacts when the window took the read lock
    installed   \* history: every list app.Contacts has held

appVars == <<appCtx, apc, ares, trigs, calls, acqs, Contacts, wlock, rlocks, dpc, display,
             dsnap, installed>>

VARIABLES
    pref,       \* the stored preference refresh_interval_min (config.PrefInterval)
    fired,      \* calls of the change listener that Preferences still has to make
    chan,       \* app.configChan: the number of values in its buffer
    cur,        \* the worker's currentDuration, in minutes; 0 until the ticker exists
    lastRead    \* history: the stored value the worker's last getInterval() saw

prefVars == <<pref, fired, chan, cur, lastRead>>

VARIABLES
    srvCtx,     \* the context handed to Start is cancelled
    startpc,    \* position of Start: "idle" | "select" | "draining" | "returned"
    listener,   \* srv.ListenAndServe: "none" | "binding" | "open" | "failed" | "closed"
    conns,      \* per client connection: "none" | "active" | "done" | "refused"
    startErr    \* what Start returned

startVars == <<srvCtx, startpc, listener, conns, startErr>>

vars == <<serverVars, engineVars, logicVars, appVars, prefVars, startVars>>

EmptyBody == [text |-> "", bytes |-> <<>>]
NoHeaders == [h \in {} |-> <<>>]

NoResponse ==
    [method |-> "", inm |-> NoHeader, ims |-> NoHeader,
     item |-> NoItem, status |-> 0, header |-> NoHeaders, body |-> EmptyBody]

ServerInit ==
    /\ cache = NoItem
    /\ clock = 0
    /\ completed = {}
    /\ stored = 0
    /\ latest = <<>>
    /\ wpc = [w \in Writers |-> "idle"]
    /\ wdata = [w \in Writers |-> <<>>]
    /\ wnow = [w \in Writers |-> 0]
    /\ witem = [w \in Writers |-> NoItem]
    /\ rpc = [r \in Readers |-> "idle"]
    /\ rmethod = [r \in Readers |-> ""]
    /\ ritem = [r \in Readers |-> NoItem]
    /\ response = NoResponse

\* the wall clock advances
Tick ==
    /\ clock < MaxClock
    /\ UNCHANGED <<engineVars, logicVars, appVars, prefVars, startVars>>
    /\ clock' = clock + 1
    /\ response' = NoResponse
    /\ UNCHANGED <<cache, completed, stored, latest, wpc, wdata, wnow, witem,
                   rpc, rmethod, ritem>>

(***************************************************************************)
(* Update, lines 90-100: hash, etag, time.Now(), build the item.           *)
(***************************************************************************)
UpdatesStarted == stored + Cardinality({w \in Writers : wpc[w] = "built"})

UpdateBuild(w, data) ==
    /\ wpc[w] = "idle"
    /\ UNCHANGED <<engineVars, logicVars, appVars, prefVars, startVars>>
    /\ UpdatesStarted < MaxUpdates
    /\ wpc' = [wpc EXCEPT ![w] = "built"]
    /\ wdata' = [wdata EXCEPT ![w] = data]
    /\ wnow' = [wnow EXCEPT ![w] = clock]
    /\ witem' = [witem EXCEPT ![w] = PointerTo(NewCacheItem(data, clock))]
    /\ response' = NoResponse
    /\ UNCHANGED <<cache, clock, completed, stored, latest, rpc, rmethod, ritem>>

\* Update, line 104: s.cache.Store(item), one atomic pointer store
UpdateStore(w) ==
    /\ wpc[w] = "built"
    /\ UNCHANGED <<engineVars, logicVars, appVars, prefVars, startVars>>
    /\ cache' = witem[w]
    /\ completed' = completed \cup {[data |-> wdata[w], at |-> wnow[w]]}
    /\ stored' = stored + 1
    /\ latest' = <<[data |-> wdata[w], at |-> wnow[w]]>>
    /\ wpc' = [wpc EXCEPT ![w] = "idle"]
    /\ wdata' = [wdata EXCEPT ![w] = <<>>]
    /\ wnow' = [wnow EXCEPT ![w] = 0]
    /\ witem' = [witem EXCEPT ![w] = NoItem]
    /\ response' = NoResponse
    /\ UNCHANGED <<clock, rpc, rmethod, ritem>>

(***************************************************************************)
(* handleCalendarRequest.                                                  *)
(***************************************************************************)
\* mutant: the method check lets every method through
MethodAllowed_Any(m) == m \in Methods

MethodAllowed(m) == m = "GET" \/ m = "HEAD"

\* http.Error(w, msg, code): text/plain, nosniff, the message and a newline
HTTPError(header, msg, code) ==
    [status |-> code,
     header |-> [h \in DOMAIN header \cup {"Content-Type", "X-Content-Type-Options"} |->
                    IF h = "Content-Type" THEN MimeTextPlain
                    ELSE IF h = "X-Content-Type-Options" THEN MimeNoSniff
                    ELSE header[h]],
     body   |-> [text |-> msg, bytes |-> <<>>]]

Respond(m, inm, ims, item, out) ==
    response' = [method |-> m, inm |-> inm, ims |-> ims,
                 item |-> item, status |-> out.status,
                 header |-> out.header, body |-> out.body]

\* lines 115-120: method validation
HandleMethod(r, m) ==
    /\ rpc[r] = "idle"
    /\ UNCHANGED <<engineVars, logicVars, appVars, prefVars, startVars>>
    /\ IF ~MethodAllowed(m)
       THEN /\ Respond(m, NoHeader, NoHeader, NoItem,
                       HTTPError([h \in {"Allow"} |-> AllowedMethods],
                                 HTTPMsgMethodNotAll, StatusMethodNotAllowed))
            /\ UNCHANGED <<rpc, rmethod>>
       ELSE /\ rpc' = [rpc EXCEPT ![r] = "load"]
            /\ rmethod' = [rmethod EXCEPT ![r] = m]
            /\ response' = NoResponse
    /\ UNCHANGED <<cache, clock, completed, stored, latest, wpc, wdata, wnow, witem, ritem>>

\* mutant: the 503 is sent without its Retry-After header
Initializing_NoRetryAfter ==
    HTTPError(NoHeaders, HTTPMsgInitializing, StatusServiceUnavailable)

\* lines 127-128: the answer while no item is installed
Initializing ==
    HTTPError([h \in {"Retry-After"} |-> RetryAfterSeconds],
              HTTPMsgInitializing, StatusServiceUnavailable)

\* lines 122-130: the atomic load and the readiness check
HandleLoad(r) ==
    /\ rpc[r] = "load"
    /\ UNCHANGED <<engineVars, logicVars, appVars, prefVars, startVars>>
    /\ IF cache = NoItem
       THEN /\ Respond(rmethod[r], NoHeader, NoHeader, NoItem, Initializing)
            /\ rpc' = [rpc EXCEPT ![r] = "idle"]
            /\ rmethod' = [rmethod EXCEPT ![r] = ""]
            /\ UNCHANGED ritem
       ELSE /\ ritem' = [ritem EXCEPT ![r] = cache]
            /\ rpc' = [rpc EXCEPT ![r] = "respond"]
            /\ response' = NoResponse
            /\ UNCHANGED rmethod
    /\ UNCHANGED <<cache, clock, completed, stored, latest, wpc, wdata, wnow, witem>>

\* lines 133-137: the headers of every response made from an item
ItemHeaders(item) ==
    [h \in {"Content-Type", "X-Content-Type-Options", "Cache-Control",
            "ETag", "Last-Modified"} |->
        CASE h = "Content-Type"           -> MimeTextCalendar
          [] h = "X-Content-Type-Options" -> MimeNoSniff
          [] h = "Cache-Control"          -> CacheControlPrivate
          [] h = "ETag"                   -> item.etag
          [] h = "Last-Modified"          -> item.lastModified]

\* mutant: the quotes are stripped before comparing, so nothing sent matches
ETagMatches_Stripped(item, inm) == inm = SubSeq(item.etag, 2, Len(item.etag) - 1)

\* line 140: If-None-Match equal to the item's ETag
ETagMatches(item, inm) == inm = item.etag

\* mutant: serverTime.Before(clientTime) in place of !serverTime.After(clientTime)
NotModifiedSince_Strict(item, ims) ==
    /\ ims # NoHeader
    /\ ParseHTTPTime(ims).ok
    /\ ParseHTTPTime(item.lastModified).ok
    /\ ParseHTTPTime(item.lastModified).sec < ParseHTTPTime(ims).sec

\* lines 145-155: If-Modified-Since present, parseable, and the server time
\* not after it
NotModifiedSince(item, ims) ==
    /\ ims # NoHeader
    /\ ParseHTTPTime(ims).ok
    /\ ParseHTTPTime(item.lastModified).ok
    /\ ~(ParseHTTPTime(item.lastModified).sec > ParseHTTPTime(ims).sec)

\* mutant: the body is read through a second s.cache.Load()
ServedItem_Reload(r) == Deref(cache)

\* line 159: the item whose data io.Copy writes is the one loaded at line 123
ServedItem(r) == Deref(ritem[r])

\* mutant: the body is written whatever the method
ServeContent_AnyMethod(m, item) == [text |-> "", bytes |-> item.data]

\* lines 158-165: the body is written for GET only
ServeContent(m, item) ==
    IF m = "GET" THEN [text |-> "", bytes |-> item.data] ELSE EmptyBody

\* lines 132-165
HandleRespond(r, inm, ims) ==
    /\ rpc[r] = "respond"
    /\ UNCHANGED <<engineVars, logicVars, appVars, prefVars, startVars>>
    /\ LET item == Deref(ritem[r])
           hdr  == ItemHeaders(item)
           out  == IF ETagMatches(item, inm) \/ NotModifiedSince(item, ims)
                   THEN [status |-> StatusNotModified, header |-> hdr, body |-> EmptyBody]
                   ELSE [status |-> StatusOK, header |-> hdr,
                         body |-> ServeContent(rmethod[r], ServedItem(r))]
       IN Respond(rmethod[r], inm, ims, ritem[r], out)
    /\ rpc' = [rpc EXCEPT ![r] = "idle"]
    /\ rmethod' = [rmethod EXCEPT ![r] = ""]
    /\ ritem' = [ritem EXCEPT ![r] = NoItem]
    /\ UNCHANGED <<cache, clock, completed, stored, latest, wpc, wdata, wnow, witem>>

(***************************************************************************)
(*                  internal/engine/engine.go                              *)
(***************************************************************************)
MaxCards == 2          \* card records in the stream handed to one RunSync

\* internal/config/config.go
SourceModeWeb     == "web"
SourceModeLocal   == "local"
DefaultLeapYear   == 2000
UIDSalt           == "go-birthday-v1-"
ICalDomain        == "gobirthday"
ICalAction        == "DISPLAY"
FallbackName      == "Unknown"
ErrLocalPathEmpty == "configuration error: local path is empty"
ErrWebURLEmpty    == "configuration error: web URL is empty"
ErrFetcherMissing == "internal error: network fetcher is not initialized"
ErrModeUnsupport  == "configuration error: unsupported source mode"
DefaultRefreshMin == 60
DefaultReminderValue == 1
DisabledInterval  == 0
ChannelBufferSize == 1
ErrVCardParse     == "failed to parse vCard stream"
ErrICalEncode     == "failed to encode iCalendar data"
ErrDateParse      == "unable to parse date"

DateFormatFullDash  == "2006-01-02"
DateFormatFullBasic == "20060102"
DateFormatRFC3339   == "2006-01-02T15:04:05Z07:00"
DateFormatFullT     == "2006-01-02T15:04:05Z"
DateFormatNoYearD   == "--01-02"
DateFormatNoYearB   == "--0102"

(***************************************************************************)
(* Go errors: an error is the sequence of its messages, outermost first;   *)
(* fmt.Errorf("%s: %w", msg, err) puts msg in front of err; nil is <<>>.   *)
(***************************************************************************)
NilError == <<>>
Canceled == <<"context canceled">>
DeadlineExceeded == <<"context deadline exceeded">>
ContextErrors == {Canceled, DeadlineExceeded}

Errorf(msg, err) == <<msg>> \o err

\* errors.Is(err, target): target is err or one of the errors err wraps
ErrorsIs(err, target) ==
    /\ target # NilError
    /\ Len(target) <= Len(err)
    /\ SubSeq(err, Len(err) - Len(target) + 1, Len(err)) = target

(***************************************************************************)
(* Calendar dates [y, m, d], and time.Date(y, m, d, 0, 0, 0, 0, loc),      *)
(* which carries a day past the end of the month into the next month.      *)
(***************************************************************************)
IsLeap(y) == y % 4 = 0 /\ (y % 100 # 0 \/ y % 400 = 0)

DaysIn(y, m) ==
    IF m = 2 THEN (IF IsLeap(y) THEN 29 ELSE 28)
    ELSE IF m \in {4, 6, 9, 11} THEN 30 ELSE 31

\* mutant: a day past the end of the month is clamped to the month's last day
Date_Clamped(y, m, d) ==
    IF d <= DaysIn(y, m) THEN [y |-> y, m |-> m, d |-> d]
    ELSE [y |-> y, m |-> m, d |-> DaysIn(y, m)]

Date(y, m, d) ==
    IF d <= DaysIn(y, m) THEN [y |-> y, m |-> m, d |-> d]
    ELSE IF m = 12 THEN [y |-> y + 1, m |-> 1, d |-> d - DaysIn(y, m)]
    ELSE [y |-> y, m |-> m + 1, d |-> d - DaysIn(y, m)]

Before(a, b) ==
    \/ a.y < b.y
    \/ a.y = b.y /\ a.m < b.m
    \/ a.y = b.y /\ a.m = b.m /\ a.d < b.d

ZeroTime == [y |-> 1, m |-> 1, d |-> 1]       \* time.Time{}

(***************************************************************************)
(* A BDAY value is the text of a date written in one layout: the layout    *)
(* and the digits.  time.Parse(f, value) succeeds when the text has the    *)
(* shape of f and its digits are a date of the calendar (a text written    *)
(* as 2006-01-02T15:04:05Z has the shape of RFC 3339 too).                 *)
(***************************************************************************)
BdayText(layout, y, m, d) == [layout |-> layout, y |-> y, m |-> m, d |-> d]
EmptyValue == BdayText("", 0, 0, 0)              \* BDAY:
Unparseable == BdayText("text", 0, 0, 0)         \* BDAY:next week

HasShape(f, value) ==
    \/ value.layout = f
    \/ f = DateFormatRFC3339 /\ value.layout = DateFormatFullT

TimeParse(f, value) ==
    IF /\ HasShape(f, value)
       /\ value.m \in 1..12
       /\ value.d \in 1..DaysIn(value.y, value.m)
    THEN [ok |-> TRUE, t |-> [y |-> value.y, m |-> value.m, d |-> value.d]]
    ELSE [ok |-> FALSE, t |-> ZeroTime]

formatsWithYear ==
    <<DateFormatFullDash, DateFormatFullBasic, DateFormatRFC3339, DateFormatFullT>>
formatsWithoutYear == <<DateFormatNoYearD, DateFormatNoYearB>>

\* the first layout of fs, from index i on, under which value parses; 0 if none
RECURSIVE FirstMatch(_, _, _)
FirstMatch(fs, i, value) ==
    IF i > Len(fs) THEN 0
    ELSE IF TimeParse(fs[i], value).ok THEN i
    ELSE FirstMatch(fs, i + 1, value)

\* mutant: no sentinel year, the year-omitted date keeps the year time.Parse gave
parseDate_YearZero(value) ==
    LET i == FirstMatch(formatsWithYear, 1, value)
        j == FirstMatch(formatsWithoutYear, 1, value)
    IN  IF i > 0
        THEN [t |-> TimeParse(formatsWithYear[i], value).t, yearKnown |-> TRUE,
              err |-> NilError]
        ELSE IF j > 0
        THEN [t |-> TimeParse(formatsWithoutYear[j], value).t, yearKnown |-> FALSE,
              err |-> NilError]
        ELSE [t |-> ZeroTime, yearKnown |-> FALSE, err |-> <<ErrDateParse>>]

\* parseDate, lines 333-359
parseDate(value) ==
    LET i == FirstMatch(formatsWithYear, 1, value)
        j == FirstMatch(formatsWithoutYear, 1, value)
    IN  IF i > 0
        THEN [t |-> TimeParse(formatsWithYear[i], value).t, yearKnown |-> TRUE,
              err |-> NilError]
        ELSE IF j > 0
        THEN LET t == TimeParse(formatsWithoutYear[j], value).t
             IN [t |-> Date(DefaultLeapYear, t.m, t.d), yearKnown |-> FALSE,
                 err |-> NilError]
        ELSE [t |-> ZeroTime, yearKnown |-> FALSE, err |-> <<ErrDateParse>>]

\* mutant: the candidate of the current year is kept even when it has passed
calculateNextOccurrence_NoRollover(now, birthDate, yearKnown) ==
    LET candidate == Date(now.y, birthDate.m, birthDate.d)
    IN  [nextOcc |-> candidate,
         ageNext |-> IF yearKnown THEN candidate.y - birthDate.y ELSE 0]

\* mutant: a birthday that is today counts as passed
calculateNextOccurrence_TodayIsPast(now, birthDate, yearKnown) ==
    LET candidate0 == Date(now.y, birthDate.m, birthDate.d)
        todayStart == Date(now.y, now.m, now.d)
        candidate  == IF ~Before(todayStart, candidate0)
                      THEN Date(now.y + 1, birthDate.m, birthDate.d)
                      ELSE candidate0
    IN  [nextOcc |-> candidate,
         ageNext |-> IF yearKnown THEN candidate.y - birthDate.y ELSE 0]

\* calculateNextOccurrence, lines 235-258
calculateNextOccurrence(now, birthDate, yearKnown) ==
    LET currentYear == now.y
        candidate0  == Date(currentYear, birthDate.m, birthDate.d)
        todayStart  == Date(now.y, now.m, now.d)
        candidate   == IF Before(candidate0, todayStart)
                       THEN Date(currentYear + 1, birthDate.m, birthDate.d)
                       ELSE candidate0
        ageNext     == IF yearKnown THEN candidate.y - birthDate.y ELSE 0
    IN  [nextOcc |-> candidate, ageNext |-> ageNext]

\* lines 166-169: the digest of "name|birthDate|salt", cut to UIDHashLength
\* bytes; the digest is modelled by the text it is taken of
UidBase(name, birthDate) == <<name, birthDate.y, birthDate.m, birthDate.d, UIDSalt>>

\* buildSummaryFormatter (internal/ui/ui.go:315-356), by the message chosen
UISummary(name, age, yearKnown) ==
    IF yearKnown
    THEN IF age = 0 THEN [msg |-> "birth", name |-> name, age |-> 0]
         ELSE [msg |-> "age", name |-> name, age |-> age]
    ELSE [msg |-> "plain", name |-> name, age |-> 0]

\* lines 290-294: config.FallbackSummary, or the injected formatter
Summary(formatSummary, name, age, yearKnown) ==
    IF formatSummary = "nil"
    THEN [msg |-> "fallback", name |-> name, age |-> 0]
    ELSE UISummary(name, age, yearKnown /\ age >= 0)

\* mutant: the alarm carries a fixed trigger, not the configured one
Alarm_FixedTrigger(trigger, description) ==
    [action |-> ICalAction, description |-> description, trigger |-> "-PT15M"]

\* addAlarm, lines 319-330
Alarm(trigger, description) ==
    [action |-> ICalAction, description |-> description, trigger |-> trigger]

\* mutant: the age is counted from the year before the birth
Event_AgeOffByOne(formatSummary, name, birthDate, yearKnown, reminderTrigger, y, uidBase) ==
    LET age     == IF yearKnown THEN y - birthDate.y + 1 ELSE 0
        summary == Summary(formatSummary, name, age, yearKnown)
    IN  [y       |-> y,
         uid     |-> <<uidBase, y, ICalDomain>>,
         summary |-> summary,
         date    |-> Date(y, birthDate.m, birthDate.d),
         alarm   |-> IF reminderTrigger # "" THEN <<Alarm(reminderTrigger, summary)>>
                     ELSE <<>>]

\* lines 281-313: the event of target year y
Event(formatSummary, name, birthDate, yearKnown, reminderTrigger, y, uidBase) ==
    LET age     == IF yearKnown THEN y - birthDate.y ELSE 0
        summary == Summary(formatSummary, name, age, yearKnown)
    IN  [y       |-> y,
         uid     |-> <<uidBase, y, ICalDomain>>,
         summary |-> summary,
         date    |-> Date(y, birthDate.m, birthDate.d),
         alarm   |-> IF reminderTrigger # "" THEN <<Alarm(reminderTrigger, summary)>>
                     ELSE <<>>]

\* mutant: the previous year is left out
targetYears_NoPrevious(now) == <<now.y, now.y + 1>>

\* line 267
targetYears(now) == <<now.y - 1, now.y, now.y + 1>>

RECURSIVE EventsFrom(_, _, _, _, _, _, _, _)
EventsFrom(i, formatSummary, name, birthDate, yearKnown, reminderTrigger, now, uidBase) ==
    IF i > Len(targetYears(now)) THEN <<>>
    ELSE LET y    == targetYears(now)[i]
             rest == EventsFrom(i + 1, formatSummary, name, birthDate, yearKnown,
                                reminderTrigger, now, uidBase)
         IN  IF yearKnown /\ y < birthDate.y THEN rest
             ELSE <<Event(formatSummary, name, birthDate, yearKnown,
                          reminderTrigger, y, uidBase)>> \o rest

\* createEvents, lines 262-316
createEvents(formatSummary, name, birthDate, yearKnown, reminderTrigger, now, uidBase) ==
    LET events == EventsFrom(1, formatSummary, name, birthDate, yearKnown,
                             reminderTrigger, now, uidBase)
    IN  [events  |-> events,
         isToday |-> \E i \in 1..Len(events) :
                        /\ events[i].y = now.y
                        /\ events[i].date.m = now.m
                        /\ events[i].date.d = now.d]

(***************************************************************************)
(* The inputs of one RunSync call.                                         *)
(***************************************************************************)
SyncConfig(mode, localPath, webURL, reminderTrigger) ==
    [Mode |-> mode, LocalPath |-> localPath, WebURL |-> webURL,
     ReminderTrigger |-> reminderTrigger]

SyncConfigs ==
    {SyncConfig(SourceModeLocal, "/contacts.vcf", "", ""),
     SyncConfig(SourceModeLocal, "", "", ""),
     SyncConfig(SourceModeWeb, "", "https://dav.example/contacts", "-P1D"),
     SyncConfig(SourceModeWeb, "", "", ""),
     SyncConfig("ftp", "/contacts.vcf", "https://dav.example/contacts", "")}

\* Generator{Fetcher, FormatSummary}; "nil" is the nil interface or func
Generators ==
    {[Fetcher |-> "nil",  FormatSummary |-> "ui"],
     [Fetcher |-> "http", FormatSummary |-> "ui"],
     [Fetcher |-> "http", FormatSummary |-> "nil"]}

\* values of g.Clock.Now(), as dates in the clock's zone
Nows == {[y |-> 2025, m |-> 3, d |-> 1], [y |-> 2024, m |-> 2, d |-> 29]}

\* what decoder.Decode() can find next in the stream
Card(fn, n, bday) == [decodeErr |-> FALSE, fn |-> fn, n |-> n, bday |-> bday]
NoField == <<>>                                  \* card.Get returns nil
Field(value) == <<value>>
Malformed == [decodeErr |-> TRUE, fn |-> NoField, n |-> NoField, bday |-> NoField]

Cards ==
    {Malformed,
     Card(Field("Ann"), NoField, NoField),
     Card(Field("Eve"), NoField, Field(EmptyValue)),
     Card(Field("Dan"), NoField, Field(Unparseable)),
     Card(Field("Bob"), Field("Roe;Bob"), Field(BdayText(DateFormatFullDash, 1990, 3, 1))),
     Card(NoField, Field("Doe;Jo"), Field(BdayText(DateFormatNoYearD, 0, 2, 29))),
     Card(Field("Zed"), NoField, Field(BdayText(DateFormatFullBasic, 2027, 3, 1)))}

RECURSIVE StreamsOfLen(_)
StreamsOfLen(n) ==
    IF n = 0 THEN {<<>>}
    ELSE {<<c>> \o s : c \in Cards, s \in StreamsOfLen(n - 1)}

Streams == UNION {StreamsOfLen(n) : n \in 0..MaxCards}

\* errors of the collaborators: os.Open, Fetcher.Fetch, ical Encoder
OpenError   == <<"open /contacts.vcf: no such file or directory">>
FetchError  == <<"network error during fetch", "dial tcp: connection refused">>
EncodeError == <<"ical: failed to encode component">>

NoGenerator == [Fetcher |-> "nil", FormatSummary |-> "nil"]
NoConfig == SyncConfig("", "", "", "")
NoResult == [ics |-> <<>>, contacts |-> <<>>, count |-> 0, err |-> NilError]
NoCancel == [at |-> "", decodes |-> 0, left |-> 0]
NoAcq    == [ok |-> FALSE, err |-> NilError]

EngineInit ==
    /\ ctxErr = NilError
    /\ spc = "idle"
    /\ gen = NoGenerator
    /\ cfg = NoConfig
    /\ acq = NoAcq
    /\ stream = <<>>
    /\ broken = FALSE
    /\ input = <<>>
    /\ opens = 0
    /\ closes = 0
    /\ syncNow = ZeroTime
    /\ decodes = 0
    /\ contacts = <<>>
    /\ children = <<>>
    /\ today = 0
    /\ result = NoResult
    /\ cancelledAtCall = FALSE
    /\ cancelSeen = NoCancel

\* the context is cancelled, or its deadline passes, while the call runs or
\* before it starts
Cancel(e) ==
    /\ ctxErr = NilError
    /\ UNCHANGED <<serverVars, logicVars, appVars, prefVars, startVars, broken>>
    /\ spc # "returned"
    /\ ctxErr' = e
    /\ cancelSeen' = [at |-> spc, decodes |-> decodes, left |-> Len(stream)]
    /\ UNCHANGED <<spc, gen, cfg, acq, stream, input, opens, closes, syncNow, decodes,
                   contacts, children, today, result, cancelledAtCall>>

\* RunSync is called on Generator g with configuration c, lines 40-46
\* (internal/ui/ui.go:202-211 builds both for every call)
RunSyncCall(g, c) ==
    /\ spc = "idle"
    /\ UNCHANGED <<serverVars, logicVars, appVars, prefVars, startVars, broken>>
    /\ spc' = "acquire"
    /\ gen' = g
    /\ cfg' = c
    /\ cancelledAtCall' = (ctxErr # NilError)
    /\ UNCHANGED <<ctxErr, acq, stream, input, opens, closes, syncNow, decodes,
                   contacts, children, today, result, cancelSeen>>

\* mutant: the nil check of the fetcher is missing
ConfigError_NoFetcherCheck(g, c) ==
    IF c.Mode = SourceModeLocal
    THEN IF c.LocalPath = "" THEN <<ErrLocalPathEmpty>> ELSE NilError
    ELSE IF c.Mode = SourceModeWeb
    THEN IF c.WebURL = "" THEN <<ErrWebURLEmpty>> ELSE NilError
    ELSE <<ErrModeUnsupport>>

\* acquireStream, lines 76-94: the configuration gap found, if any
ConfigError(g, c) ==
    IF c.Mode = SourceModeLocal
    THEN IF c.LocalPath = "" THEN <<ErrLocalPathEmpty>> ELSE NilError
    ELSE IF c.Mode = SourceModeWeb
    THEN IF c.WebURL = "" THEN <<ErrWebURLEmpty>>
         ELSE IF g.Fetcher = "nil" THEN <<ErrFetcherMissing>>
         ELSE NilError
    ELSE <<ErrModeUnsupport>>

\* the error os.Open or Fetch may return; a Fetch bound to a cancelled
\* context fails with an error that wraps the context's
SourceErrors(c) ==
    IF c.Mode = SourceModeLocal THEN {OpenError}
    ELSE {FetchError} \cup
         (IF ctxErr # NilError THEN {Errorf("network error during fetch", ctxErr)}
          ELSE {})

AllSourceErrors ==
    {OpenError, FetchError} \cup
    {Errorf("network error during fetch", x) : x \in ContextErrors}

\* line 49: reader, err := g.acquireStream(ctx, cfg); the source either
\* yields a reader over some stream s or fails with e; b tells whether the
\* reader, once the records of s are read, fails with an error other than
\* io.EOF on every Read (a connection that was reset, a response body read
\* after the client's timeout)
AcquireStream(s, e, b) ==
    /\ spc = "acquire"
    /\ UNCHANGED <<serverVars, logicVars, appVars, prefVars, startVars>>
    /\ spc' = "acquired"
    /\ IF ConfigError(gen, cfg) # NilError
       THEN /\ acq' = [ok |-> FALSE, err |-> ConfigError(gen, cfg)]
            /\ UNCHANGED <<stream, broken, input, opens>>
       ELSE /\ opens' = opens + 1
            /\ \/ /\ acq' = [ok |-> TRUE, err |-> NilError]
                  /\ stream' = s
                  /\ broken' = b
                  /\ input' = s
               \/ /\ e \in SourceErrors(cfg)
                  /\ acq' = [ok |-> FALSE, err |-> e]
                  /\ UNCHANGED <<stream, broken, input>>
    /\ UNCHANGED <<ctxErr, gen, cfg, closes, syncNow, decodes, contacts, children,
                   today, result, cancelledAtCall, cancelSeen>>

\* mutant: the deferred Close is missing
Return_NoClose(ics, cs, count, err, deferred) ==
    /\ result' = [ics |-> ics, contacts |-> cs, count |-> count, err |-> err]
    /\ closes' = closes
    /\ spc' = "returned"

\* return from RunSync; the deferred reader.Close() runs if it was registered
Return(ics, cs, count, err, deferred) ==
    /\ result' = [ics |-> ics, contacts |-> cs, count |-> count, err |-> err]
    /\ closes' = IF deferred THEN closes + 1 ELSE closes
    /\ spc' = "returned"

\* mutant: the cause is formatted into the message instead of being wrapped
WrapAcquireError_Flat(err) == <<ErrVCardParse>>

\* line 55: the acquisition error as RunSync returns it
WrapAcquireError(err) == Errorf(ErrVCardParse, err)

\* mutant: the acquisition error is returned whatever the context says
AcquireFailure_NoContext(err) == WrapAcquireError(err)

\* mutant: a configuration gap is reported before the context is looked at
AcquireFailure_GapFirst(err) ==
    IF ctxErr # NilError /\ err \in AllSourceErrors THEN ctxErr ELSE WrapAcquireError(err)

\* lines 50-56: the error returned when acquireStream failed with err
AcquireFailure(err) ==
    IF ctxErr # NilError THEN ctxErr ELSE WrapAcquireError(err)

\* mutant: the loop never looks at the context
LoopCancelled_Never == FALSE

\* line 125: ctx.Err() != nil
LoopCancelled == ctxErr # NilError

\* lines 50-63, and lines 99-122 of generateCalendar, which read the clock
AfterAcquire(n) ==
    /\ spc = "acquired"
    /\ UNCHANGED <<serverVars, logicVars, appVars, prefVars, startVars, broken>>
    /\ IF ~acq.ok
       THEN /\ Return(<<>>, <<>>, 0, AcquireFailure(acq.err), FALSE)
            /\ UNCHANGED syncNow
       ELSE IF ctxErr # NilError
       THEN /\ Return(<<>>, <<>>, 0, ctxErr, TRUE)
            /\ UNCHANGED syncNow
       ELSE /\ syncNow' = n
            /\ spc' = "check"
            /\ UNCHANGED <<result, closes>>
    /\ UNCHANGED <<ctxErr, gen, cfg, acq, stream, input, opens, decodes, contacts,
                   children, today, cancelledAtCall, cancelSeen>>

\* lines 125-127: the cancellation check at the top of the loop
LoopCheck ==
    /\ spc = "check"
    /\ UNCHANGED <<serverVars, logicVars, appVars, prefVars, startVars, broken>>
    /\ IF LoopCancelled
       THEN Return(<<>>, <<>>, 0, ctxErr, TRUE)
       ELSE /\ spc' = "decode"
            /\ UNCHANGED <<result, closes>>
    /\ UNCHANGED <<ctxErr, gen, cfg, acq, stream, input, opens, syncNow, decodes, contacts,
                   children, today, cancelledAtCall, cancelSeen>>

\* lines 156-162: FN, else N, else the fallback name
NameOf(card) ==
    IF card.fn # NoField THEN card.fn[1]
    ELSE IF card.n # NoField THEN card.n[1]
    ELSE FallbackName

\* mutant: the identifier is taken of the clock value, not of the birth date
Entry_UidFromClock(card, parsed, n) ==
    LET name == NameOf(card)
        next == calculateNextOccurrence(n, parsed.t, parsed.yearKnown)
    IN  [UID            |-> UidBase(name, n),
         Name           |-> name,
         DateOfBirth    |-> parsed.t,
         YearKnown      |-> parsed.yearKnown,
         NextOccurrence |-> next.nextOcc,
         AgeNext        |-> next.ageNext]

\* lines 174-181: the BirthdayEntry of a card with a parsed birth date
Entry(card, parsed, n) ==
    LET name == NameOf(card)
        next == calculateNextOccurrence(n, parsed.t, parsed.yearKnown)
    IN  [UID            |-> UidBase(name, parsed.t),
         Name           |-> name,
         DateOfBirth    |-> parsed.t,
         YearKnown      |-> parsed.yearKnown,
         NextOccurrence |-> next.nextOcc,
         AgeNext        |-> next.ageNext]

\* mutant: the error of parseDate is ignored
Skipped_ParseErrorIgnored(card) == card.bday = NoField

\* lines 142-153: the card is skipped (no BDAY, empty BDAY, unparseable BDAY)
Skipped(card) ==
    \/ card.bday = NoField
    \/ card.bday[1] = EmptyValue
    \/ parseDate(card.bday[1]).err # NilError

\* mutant: the today-count counts events, not records
Decode_CountsEvents ==
    /\ spc = "decode"
    /\ UNCHANGED <<serverVars, logicVars, appVars, prefVars, startVars, broken>>
    /\ IF stream = <<>> /\ broken
       THEN /\ spc' = "check"                  \* err is not io.EOF: log, continue
            /\ UNCHANGED <<stream, decodes, contacts, children, today>>
       ELSE IF stream = <<>>
       THEN /\ spc' = "assemble"                            \* io.EOF: break
            /\ decodes' = decodes + 1
            /\ UNCHANGED <<stream, contacts, children, today>>
       ELSE /\ spc' = "check"
            /\ decodes' = decodes + 1
            /\ stream' = Tail(stream)
            /\ LET card == Head(stream)
               IN  IF card.decodeErr \/ Skipped(card)
                   THEN UNCHANGED <<contacts, children, today>>
                   ELSE LET parsed == parseDate(card.bday[1])
                            entry  == Entry(card, parsed, syncNow)
                            made   == createEvents(gen.FormatSummary, entry.Name,
                                                   parsed.t, parsed.yearKnown,
                                                   cfg.ReminderTrigger, syncNow, entry.UID)
                        IN  /\ contacts' = Append(contacts, entry)
                            /\ children' = children \o made.events
                            /\ today' = today + Len(made.events)
    /\ UNCHANGED <<ctxErr, gen, cfg, acq, input, opens, closes, syncNow, result,
                   cancelledAtCall, cancelSeen>>

\* lines 129-199: one Decode and the processing of what it returned
Decode ==
    /\ spc = "decode"
    /\ UNCHANGED <<serverVars, logicVars, appVars, prefVars, startVars, broken>>
    /\ IF stream = <<>> /\ broken
       THEN /\ spc' = "check"                  \* err is not io.EOF: log, continue
            /\ UNCHANGED <<stream, decodes, contacts, children, today>>
       ELSE IF stream = <<>>
       THEN /\ spc' = "assemble"                            \* io.EOF: break
            /\ decodes' = decodes + 1
            /\ UNCHANGED <<stream, contacts, children, today>>
       ELSE /\ spc' = "check"
            /\ decodes' = decodes + 1
            /\ stream' = Tail(stream)
            /\ LET card == Head(stream)
               IN  IF card.decodeErr \/ Skipped(card)
                   THEN UNCHANGED <<contacts, children, today>>
                   ELSE LET parsed == parseDate(card.bday[1])
                            entry  == Entry(card, parsed, syncNow)
                            made   == createEvents(gen.FormatSummary, entry.Name,
                                                   parsed.t, parsed.yearKnown,
                                                   cfg.ReminderTrigger, syncNow, entry.UID)
                        IN  /\ contacts' = Append(contacts, entry)
                            /\ children' = children \o made.events
                            /\ today' = IF made.isToday THEN today + 1 ELSE today
    /\ UNCHANGED <<ctxErr, gen, cfg, acq, input, opens, closes, syncNow, result,
                   cancelledAtCall, cancelSeen>>

\* the encoded documents: config.StubVCalendar, and the calendar with its
\* header properties, the shared DTSTAMP and its events
StubVCalendar == [props |-> {"VERSION", "PRODID"}, dtstamp |-> ZeroTime, events |-> <<>>]

EncodeCalendar(stamp, events) ==
    [props   |-> {"VERSION", "PRODID", "X-WR-CALNAME", "CALSCALE", "METHOD",
                  "REFRESH-INTERVAL"},
     dtstamp |-> stamp,
     events  |-> events]

\* mutant: the calendar is encoded even when it has no event
Assemble_NoStub(encodes) ==
    /\ spc = "assemble"
    /\ UNCHANGED <<serverVars, logicVars, appVars, prefVars, startVars, broken>>
    /\ IF encodes
       THEN Return(<<EncodeCalendar(syncNow, children)>>, contacts, today, NilError, TRUE)
       ELSE Return(<<>>, <<>>, 0, Errorf(ErrICalEncode, EncodeError), TRUE)
    /\ UNCHANGED <<ctxErr, gen, cfg, acq, stream, input, opens, syncNow, decodes, contacts,
                   children, today, cancelledAtCall, cancelSeen>>

\* lines 201-218; encodes tells whether the encoder succeeds
Assemble(encodes) ==
    /\ spc = "assemble"
    /\ UNCHANGED <<serverVars, logicVars, appVars, prefVars, startVars, broken>>
    /\ IF children = <<>>
       THEN Return(<<StubVCalendar>>, contacts, 0, NilError, TRUE)
       ELSE IF encodes
       THEN Return(<<EncodeCalendar(syncNow, children)>>, contacts, today, NilError, TRUE)
       ELSE Return(<<>>, <<>>, 0, Errorf(ErrICalEncode, EncodeError), TRUE)
    /\ UNCHANGED <<ctxErr, gen, cfg, acq, stream, input, opens, syncNow, decodes, contacts,
                   children, today, cancelledAtCall, cancelSeen>>

(***************************************************************************)
(* The date logic on its own: calculateNextOccurrence and createEvents     *)
(* applied to one parsed birth date at one clock value, as lines 172 and   *)
(* 185 of generateCalendar apply them, over every day of a few years.      *)
(***************************************************************************)
DatesOf(y) ==
    {t \in {[y |-> y, m |-> m, d |-> d] : m \in 1..12, d \in 1..31} :
        t.d <= DaysIn(y, t.m)}

\* years of g.Clock.Now(): a leap year and the years around it
ClockYears == {2023, 2024, 2025}

\* birth years parseDate can return with the year known: long before, inside
\* and after the clock years
BirthYears == {2000, 2024, 2026}

\* the (birthDate, yearKnown) pairs parseDate returns (lines 343-355)
ParsedDates ==
    {[birthDate |-> b, yearKnown |-> TRUE] :
        b \in UNION {DatesOf(y) : y \in BirthYears}} \cup
    {[birthDate |-> b, yearKnown |-> FALSE] : b \in DatesOf(DefaultLeapYear)}

\* the values of g.Clock.Now(), as dates in the clock's zone
ClockDates == UNION {DatesOf(y) : y \in ClockYears}

NoArgs == [now |-> ZeroTime, birthDate |-> ZeroTime, yearKnown |-> FALSE]
NoOut  == [next |-> [nextOcc |-> ZeroTime, ageNext |-> 0],
           made |-> [events |-> <<>>, isToday |-> FALSE]]

LogicIdle ==
    /\ lpc = "idle"
    /\ largs = NoArgs
    /\ lout = NoOut

\* lines 172 and 185 for a card named "Bob", with the formatter of the UI and
\* no reminder
ProjectRecord ==
    /\ lpc = "called"
    /\ UNCHANGED <<serverVars, engineVars, appVars, prefVars, startVars>>
    /\ lpc' = "returned"
    /\ lout' = [next |-> calculateNextOccurrence(largs.now, largs.birthDate,
                                                 largs.yearKnown),
                made |-> createEvents("ui", "Bob", largs.birthDate, largs.yearKnown,
                                      "", largs.now, UidBase("Bob", largs.birthDate))]
    /\ UNCHANGED largs

(***************************************************************************)
(* parseDate on its own: lines 142-181 of generateCalendar applied to one  *)
(* card whose BDAY is any text of any layout, digits of no calendar date   *)
(* included.                                                               *)
(***************************************************************************)
TextYears == {1990, 2000, 2023, 2024}

BdayTexts ==
    {BdayText(f, y, m, d) :
        f \in {DateFormatFullDash, DateFormatFullBasic, DateFormatRFC3339,
               DateFormatFullT},
        y \in TextYears, m \in 0..13, d \in 0..32} \cup
    {BdayText(f, 0, m, d) :
        f \in {DateFormatNoYearD, DateFormatNoYearB}, m \in 0..13, d \in 0..32} \cup
    {EmptyValue, Unparseable}

NoEntry == [UID |-> <<>>, Name |-> "", DateOfBirth |-> ZeroTime, YearKnown |-> FALSE,
            NextOccurrence |-> ZeroTime, AgeNext |-> 0]

NoParse == [parsed |-> [t |-> ZeroTime, yearKnown |-> FALSE, err |-> NilError],
            skipped |-> FALSE, entry |-> NoEntry]

\* lines 142-181 for a card FN:Bob whose BDAY is largs.value
ParseRecord ==
    /\ lpc = "parse"
    /\ UNCHANGED <<serverVars, engineVars, appVars, prefVars, startVars>>
    /\ lpc' = "parsed"
    /\ LET card   == Card(Field("Bob"), NoField, Field(largs.value))
           parsed == parseDate(largs.value)
       IN  lout' = [parsed  |-> parsed,
                    skipped |-> Skipped(card),
                    entry   |-> IF Skipped(card) THEN NoEntry
                                ELSE Entry(card, parsed, largs.now)]
    /\ UNCHANGED largs

(***************************************************************************)
(* loadSyncConfig, internal/ui/ui.go:291-309: the reminder preferences     *)
(* turned into cfg.ReminderTrigger.  A text is the sequence of its         *)
(* characters; a preference is <<>> while nothing is stored under its key. *)
(***************************************************************************)
ISOPeriodPrefix   == <<"P">>
ISONegativePrefix == <<"-", "P">>
ISODay            == <<"D">>
ISOHour           == <<"H">>
ISOMinute         == <<"M">>
UnitDays          == "d"
UnitHours         == "h"
UnitMinutes       == "m"
DirBefore         == "before"
DirAfter          == "after"

\* fmt's %d of a number that is not negative
RECURSIVE FormatInt(_)
FormatInt(n) ==
    IF n < 10 THEN <<DecChars[n + 1]>>
    ELSE FormatInt(n \div 10) \o <<DecChars[(n % 10) + 1]>>

\* Preferences.IntWithFallback, StringWithFallback
WithFallback(held, fallback) == IF held = <<>> THEN fallback ELSE held[1]

\* mutant: the unit is not looked at
loadSyncConfig_AlwaysDays(p) ==
    IF ~p.enabled THEN <<>>
    ELSE LET val  == WithFallback(p.val, DefaultReminderValue)
             dir  == WithFallback(p.dir, DirBefore)
             sign == IF dir = DirBefore THEN ISONegativePrefix ELSE ISOPeriodPrefix
         IN  sign \o FormatInt(val) \o ISODay

\* lines 291-309: cfg.ReminderTrigger for the preferences p
loadSyncConfig(p) ==
    IF ~p.enabled THEN <<>>
    ELSE LET val  == WithFallback(p.val, DefaultReminderValue)
             unit == WithFallback(p.unit, UnitDays)
             dir  == WithFallback(p.dir, DirBefore)
             sign == IF dir = DirBefore THEN ISONegativePrefix ELSE ISOPeriodPrefix
         IN  IF unit = UnitHours THEN sign \o FormatInt(val) \o ISOHour
             ELSE IF unit = UnitMinutes THEN sign \o FormatInt(val) \o ISOMinute
             ELSE sign \o FormatInt(val) \o ISODay

\* the reminder preferences the settings window or an older version stored
ReminderPrefs ==
    [enabled : BOOLEAN,
     val     : {<<>>, <<0>>, <<1>>, <<2>>, <<30>>, <<120>>},
     unit    : {<<>>, <<UnitDays>>, <<UnitHours>>, <<UnitMinutes>>, <<"w">>},
     dir     : {<<>>, <<DirBefore>>, <<DirAfter>>}]

\* ui.go:202: cfg := app.loadSyncConfig()
LoadConfig ==
    /\ lpc = "load"
    /\ UNCHANGED <<serverVars, engineVars, appVars, prefVars, startVars>>
    /\ lpc' = "loaded"
    /\ lout' = [ReminderTrigger |-> loadSyncConfig(largs)]
    /\ UNCHANGED largs

(***************************************************************************)
(*                  internal/ui/ui.go, internal/ui/ui_contacts.go          *)
(*                                                                         *)
(* The goroutines that call performSync: the background worker (its first  *)
(* sync and its ticks) and a manual sync (the goroutine of a Refresh click *)
(* in the tray menu, or saveSettings).  RunSync is one call that acquires  *)
(* its stream at most once and returns one of its outcomes; what happens   *)
(* inside it is the subject of SpecSync.                                   *)
(***************************************************************************)
Syncers == {"worker", "manual"}

AppEntry(name, next, age, known) ==
    [Name |-> name, NextOccurrence |-> next, AgeNext |-> age, YearKnown |-> known]

\* the zero value of engine.BirthdayEntry, as make() fills a slice with
ZeroEntry == AppEntry("", 0, 0, FALSE)

\* the entries of a sync that found two records; NextOccurrence is the day
\* it falls on, counted from the day of the sync
SomeContacts == <<AppEntry("Bob", 2, 35, TRUE), AppEntry("Ann", 1, 0, FALSE)>>

\* the feed of those two records, and config.StubVCalendar
FeedBytes == <<65, 66>>
StubBytes == <<65>>

SyncOutcome(ics, cs, count, err) ==
    [ics |-> ics, contacts |-> cs, count |-> count, err |-> err]

\* what RunSync returns: after a configuration gap (nothing acquired) the
\* wrapped gap; after an acquisition a feed with its entries, the stub with
\* no entry, or the wrapped error of the source or of the encoder; and the
\* context's error once the context is cancelled
SyncOutcomes(acquired, ctx) ==
    (IF acquired
     THEN {SyncOutcome(FeedBytes, SomeContacts, 1, NilError),
           SyncOutcome(StubBytes, <<>>, 0, NilError),
           SyncOutcome(<<>>, <<>>, 0, Errorf(ErrVCardParse, FetchError))}
     ELSE {SyncOutcome(<<>>, <<>>, 0, Errorf(ErrVCardParse, <<ErrWebURLEmpty>>))}) \cup
    (IF ctx # NilError THEN {SyncOutcome(<<>>, <<>>, 0, ctx)} ELSE {})

AllSyncOutcomes ==
    UNION {SyncOutcomes(acquired, ctx) :
              acquired \in BOOLEAN, ctx \in {NilError, Canceled}}

NoOutcome == <<>>
Succeeded(r) == r # NoOutcome /\ r[1].err = NilError

\* the server variables performSync leaves alone
serverRest == <<clock, completed, stored, latest, wpc, wdata, wnow, witem, rpc,
                rmethod, ritem>>

AppInit ==
    /\ appCtx = NilError
    /\ apc = [a \in Syncers |-> IF a = "worker" THEN "start" ELSE "idle"]
    /\ ares = [a \in Syncers |-> NoOutcome]
    /\ trigs = [a \in Syncers |-> 0]
    /\ calls = [a \in Syncers |-> 0]
    /\ acqs = [a \in Syncers |-> 0]
    /\ Contacts = <<>>
    /\ wlock = ""
    /\ rlocks = 0
    /\ dpc = "closed"
    /\ display = <<>>
    /\ dsnap = <<>>
    /\ installed = {<<>>}
    /\ pref = DefaultRefreshMin
    /\ fired = 0
    /\ chan = 0
    /\ cur = 0
    /\ lastRead = DefaultRefreshMin

\* a step of the application: nothing of the engine or of Start moves, the
\* server keeps everything but its cache slot, no response is written
AppStep ==
    /\ UNCHANGED serverRest
    /\ UNCHANGED <<engineVars, logicVars, prefVars, startVars>>
    /\ response' = NoResponse

\* the application context is cancelled (ui.go:95, on quit)
AppCancel ==
    /\ appCtx = NilError
    /\ AppStep
    /\ appCtx' = Canceled
    /\ UNCHANGED <<cache, apc, ares, trigs, calls, acqs, Contacts, wlock, rlocks, dpc,
                   display, dsnap, installed>>

\* performSync, lines 193-211: goroutine a enters performSync on one trigger
\* and invokes gen.RunSync(app.Ctx, cfg)
Invoke(a) ==
    /\ AppStep
    /\ apc' = [apc EXCEPT ![a] = "run"]
    /\ ares' = [ares EXCEPT ![a] = NoOutcome]
    /\ trigs' = [trigs EXCEPT ![a] = 1]
    /\ calls' = [calls EXCEPT ![a] = 1]
    /\ acqs' = [acqs EXCEPT ![a] = 0]
    /\ UNCHANGED <<cache, appCtx, Contacts, wlock, rlocks, dpc, display, dsnap, installed>>

\* backgroundWorker, line 156: the initial sync
WorkerStart ==
    /\ apc["worker"] = "start"
    /\ Invoke("worker")

\* backgroundWorker, lines 186-187: a tick of the ticker is received
WorkerTick ==
    /\ apc["worker"] = "idle"
    /\ cur # 0
    /\ Invoke("worker")

\* backgroundWorker, lines 174-176: ctx.Done() is received, the worker returns
WorkerStop ==
    /\ apc["worker"] = "idle"
    /\ cur # 0
    /\ AppStep
    /\ appCtx # NilError
    /\ apc' = [apc EXCEPT !["worker"] = "stopped"]
    /\ UNCHANGED <<cache, appCtx, ares, trigs, calls, acqs, Contacts, wlock, rlocks, dpc,
                   display, dsnap, installed>>

\* a step of the preferences or of the worker's loop that leaves the syncs,
\* the contacts and the server alone
WorkerStep ==
    /\ UNCHANGED serverRest
    /\ UNCHANGED <<cache, engineVars, logicVars, appVars, startVars>>
    /\ response' = NoResponse

\* what saveSettings stores as the interval (part_003:669-679): 0 for an
\* empty field or "0", otherwise the number typed
StoredIntervals == {DisabledInterval, 30, 120}

\* part_003:673, 677: app.Preferences.SetInt(config.PrefInterval, v); the
\* value is stored, then Preferences calls the change listeners
SetInterval(v) ==
    /\ fired = 0
    /\ WorkerStep
    /\ pref' = v
    /\ fired' = 1
    /\ UNCHANGED <<chan, cur, lastRead>>

\* ui.go:105-110, the change listener: select { case app.configChan <-
\* config.PrefInterval: default: }, a send that is dropped when the buffer
\* (config.ChannelBufferSize) is full
Notify ==
    /\ fired = 1
    /\ WorkerStep
    /\ fired' = 0
    /\ chan' = IF chan < ChannelBufferSize THEN chan + 1 ELSE chan
    /\ UNCHANGED <<pref, cur, lastRead>>

\* ui.go:158-164: the stored interval in minutes, the default for a value
\* that is not positive
getInterval(val) == IF val <= 0 THEN DefaultRefreshMin ELSE val

\* ui.go:166-170, after the initial sync: currentDuration := getInterval();
\* ticker := time.NewTicker(currentDuration)
WorkerSetup ==
    /\ apc["worker"] = "idle"
    /\ cur = 0
    /\ WorkerStep
    /\ cur' = getInterval(pref)
    /\ lastRead' = pref
    /\ UNCHANGED <<pref, fired, chan>>

\* ui.go:178-184: a value is received from app.configChan; the interval is
\* read again and the ticker reset when it differs
WorkerConfig ==
    /\ apc["worker"] = "idle"
    /\ cur # 0
    /\ chan > 0
    /\ WorkerStep
    /\ chan' = chan - 1
    /\ cur' = getInterval(pref)
    /\ lastRead' = pref
    /\ UNCHANGED <<pref, fired>>

\* setupTrayMenu, lines 122-124 (go app.performSync(true)), and saveSettings
\* (app.performSync(true) once the preferences are stored)
ManualSync ==
    /\ apc["manual"] = "idle"
    /\ Invoke("manual")

\* engine.go:49, inside RunSync: acquireStream opens the file or calls the
\* fetcher once, or finds a configuration gap and opens nothing
SyncAcquire(a, opened) ==
    /\ apc[a] = "run"
    /\ AppStep
    /\ apc' = [apc EXCEPT ![a] = "stream"]
    /\ acqs' = [acqs EXCEPT ![a] = IF opened THEN acqs[a] + 1 ELSE acqs[a]]
    /\ UNCHANGED <<cache, appCtx, ares, trigs, calls, Contacts, wlock, rlocks, dpc,
                   display, dsnap, installed>>

\* mutant: the error of RunSync is not looked at
SyncFailed_Never(out) == FALSE

\* line 212: err != nil
SyncFailed(out) == out.err # NilError

\* mutant: a failed sync is run again at once
AfterFailure_Retry(a) == "run"

\* lines 213-218: the failure is logged and notified, performSync returns
AfterFailure(a) == "idle"

\* lines 211-219: RunSync returns out to goroutine a
SyncReturn(a, out) ==
    /\ apc[a] = "stream"
    /\ AppStep
    /\ out \in SyncOutcomes(acqs[a] > 0, appCtx)
    /\ ares' = [ares EXCEPT ![a] = <<out>>]
    /\ IF SyncFailed(out)
       THEN LET next == AfterFailure(a)
            IN  /\ apc' = [apc EXCEPT ![a] = next]
                /\ trigs' = [trigs EXCEPT ![a] = IF next = "run" THEN trigs[a] ELSE 0]
                /\ calls' = [calls EXCEPT ![a] = IF next = "run" THEN calls[a] + 1 ELSE 0]
                /\ acqs' = [acqs EXCEPT ![a] = 0]
       ELSE /\ apc' = [apc EXCEPT ![a] = "swap"]
            /\ UNCHANGED <<trigs, calls, acqs>>
    /\ UNCHANGED <<cache, appCtx, Contacts, wlock, rlocks, dpc, display, dsnap, installed>>

\* mutant: Lock does not wait for the readers
CanLock_IgnoresReaders == wlock = ""

\* sync.RWMutex: Lock is granted when nobody holds the mutex
CanLock == wlock = "" /\ rlocks = 0

\* sync.RWMutex: RLock is granted when no writer holds the mutex
CanRLock == wlock = ""

\* line 222: app.ContactsMut.Lock()
ContactsLock(a) ==
    /\ apc[a] = "swap"
    /\ AppStep
    /\ CanLock
    /\ wlock' = a
    /\ apc' = [apc EXCEPT ![a] = "locked"]
    /\ UNCHANGED <<cache, appCtx, ares, trigs, calls, acqs, Contacts, rlocks, dpc,
                   display, dsnap, installed>>

\* lines 223-224: app.Contacts = contacts; app.ContactsMut.Unlock()
ContactsStore(a) ==
    /\ apc[a] = "locked"
    /\ AppStep
    /\ Contacts' = ares[a][1].contacts
    /\ installed' = installed \cup {ares[a][1].contacts}
    /\ wlock' = ""
    /\ apc' = [apc EXCEPT ![a] = "update"]
    /\ UNCHANGED <<cache, appCtx, ares, trigs, calls, acqs, rlocks, dpc, display, dsnap>>

\* lines 226-232: app.Server.Update(icsData) (server.go:90-104), the tray
\* status, and performSync returns
ServerUpdate(a) ==
    /\ apc[a] = "update"
    /\ AppStep
    /\ cache' = PointerTo(NewCacheItem(ares[a][1].ics, clock))
    /\ apc' = [apc EXCEPT ![a] = "idle"]
    /\ trigs' = [trigs EXCEPT ![a] = 0]
    /\ calls' = [calls EXCEPT ![a] = 0]
    /\ acqs' = [acqs EXCEPT ![a] = 0]
    /\ UNCHANGED <<appCtx, ares, Contacts, wlock, rlocks, dpc, display, dsnap, installed>>

\* ui_contacts.go:20-31: the window is not open; RLock, then make() a slice
\* of len(app.Contacts) zero entries
OpenContactsWindow ==
    /\ dpc = "closed"
    /\ AppStep
    /\ CanRLock
    /\ rlocks' = rlocks + 1
    /\ display' = [i \in 1..Len(Contacts) |-> ZeroEntry]
    /\ dsnap' = Contacts
    /\ dpc' = "sized"
    /\ UNCHANGED <<cache, appCtx, apc, ares, trigs, calls, acqs, Contacts, wlock, installed>>

\* ui_contacts.go:32-33: copy(displayContacts, app.Contacts), which copies
\* the shorter of the two lengths, then RUnlock
CopyContacts ==
    /\ dpc = "sized"
    /\ AppStep
    /\ display' = [i \in 1..Len(display) |->
                      IF i <= Len(Contacts) THEN Contacts[i] ELSE display[i]]
    /\ rlocks' = rlocks - 1
    /\ dpc' = "copied"
    /\ UNCHANGED <<cache, appCtx, apc, ares, trigs, calls, acqs, Contacts, wlock, dsnap,
                   installed>>

SortColumns == {"date", "name", "age"}

\* the order of the lower-cased names
NameRank(name) ==
    CASE name = "" -> 0 [] name = "Ann" -> 1 [] name = "Bob" -> 2 [] OTHER -> 3

\* ui_contacts.go:47-69: the less function of performSort, ascending
Less(col, a, b) ==
    IF col = "name" THEN NameRank(a.Name) < NameRank(b.Name)
    ELSE IF col = "age"
    THEN IF ~a.YearKnown /\ b.YearKnown THEN FALSE
         ELSE IF a.YearKnown /\ ~b.YearKnown THEN TRUE
         ELSE a.AgeNext < b.AgeNext
    ELSE IF a.NextOccurrence = b.NextOccurrence
         THEN NameRank(a.Name) < NameRank(b.Name)
         ELSE a.NextOccurrence < b.NextOccurrence

Rearrangements(rows) ==
    {[i \in 1..Len(rows) |-> rows[f[i]]] :
        f \in {g \in [1..Len(rows) -> 1..Len(rows)] :
                  \A i, j \in 1..Len(rows) : i # j => g[i] # g[j]}}

\* what sort.Slice can leave in the slice: its elements in an order that
\* agrees with the less function (sort.Slice is not stable)
Sorted(col, asc, rows) ==
    {p \in Rearrangements(rows) :
        \A i, j \in 1..Len(p) :
            i < j => IF asc THEN ~Less(col, p[j], p[i]) ELSE ~Less(col, p[i], p[j])}

\* ui_contacts.go:46-81: performSort sorts displayContacts in place; the
\* first sort, when the window opens, is by date, ascending (line 84)
PerformSort(col, asc) ==
    /\ dpc \in {"copied", "open"}
    /\ AppStep
    /\ dpc = "copied" => (col = "date" /\ asc)
    /\ \E p \in Sorted(col, asc, display) : display' = p
    /\ dpc' = "open"
    /\ UNCHANGED <<cache, appCtx, apc, ares, trigs, calls, acqs, Contacts, wlock, rlocks,
                   dsnap, installed>>

\* the window is closed; displayContacts is dropped with it
CloseContactsWindow ==
    /\ dpc = "open"
    /\ AppStep
    /\ dpc' = "closed"
    /\ display' = <<>>
    /\ dsnap' = <<>>
    /\ UNCHANGED <<cache, appCtx, apc, ares, trigs, calls, acqs, Contacts, wlock, rlocks,
                   installed>>

(***************************************************************************)
(*                  internal/server/server.go: Start                       *)
(*                                                                         *)
(* http.Server as Start uses it: ListenAndServe binds the address or       *)
(* fails, and returns ErrServerClosed once Shutdown was called; Shutdown   *)
(* closes the listener, waits for the connections that serve a request,    *)
(* and returns the error of its context when that expires first, leaving   *)
(* those connections as they are.                                          *)
(***************************************************************************)
Ports == {"", "18080"}
Conns == {"c1", "c2", "c3"}

ErrServerStartup  == "server startup failed"
ErrServerShutdown == "server shutdown failed"
ErrPortRequired   == "server port is required"
BindError == <<"listen tcp 127.0.0.1:18080: bind: address already in use">>

StartInit ==
    /\ srvCtx = FALSE
    /\ startpc = "idle"
    /\ listener = "none"
    /\ conns = [c \in Conns |-> "none"]
    /\ startErr = NilError

StartStep == UNCHANGED <<serverVars, engineVars, logicVars, appVars, prefVars>>

\* lines 43-70: the port check, the server value, the goroutine that will
\* call ListenAndServe
StartCall(port) ==
    /\ startpc = "idle"
    /\ StartStep
    /\ IF port = ""
       THEN /\ startpc' = "returned"
            /\ startErr' = <<ErrPortRequired>>
            /\ UNCHANGED listener
       ELSE /\ startpc' = "select"
            /\ listener' = "binding"
            /\ UNCHANGED startErr
    /\ UNCHANGED <<srvCtx, conns>>

\* lines 62-70: srv.ListenAndServe() binds (bound) or fails, and the failure
\* is sent on serverError; after Shutdown it returns ErrServerClosed at once
ListenAndServe(bound) ==
    /\ listener = "binding"
    /\ StartStep
    /\ listener' = IF startpc # "select" THEN "closed"
                   ELSE IF bound THEN "open" ELSE "failed"
    /\ UNCHANGED <<srvCtx, startpc, conns, startErr>>

\* the context handed to Start is cancelled
StartCancel ==
    /\ ~srvCtx
    /\ StartStep
    /\ srvCtx' = TRUE
    /\ UNCHANGED <<startpc, listener, conns, startErr>>

\* a client connects and sends a request: accepted while the listener is
\* open, refused otherwise
Connect(c) ==
    /\ conns[c] = "none"
    /\ StartStep
    /\ conns' = [conns EXCEPT ![c] = IF listener = "open" THEN "active" ELSE "refused"]
    /\ UNCHANGED <<srvCtx, startpc, listener, startErr>>

\* the request of connection c is answered and the connection ends
Finish(c) ==
    /\ conns[c] = "active"
    /\ StartStep
    /\ conns' = [conns EXCEPT ![c] = "done"]
    /\ UNCHANGED <<srvCtx, startpc, listener, startErr>>

\* lines 83-84: an error arrives on serverError
StartupFailure ==
    /\ startpc = "select"
    /\ StartStep
    /\ listener = "failed"
    /\ startpc' = "returned"
    /\ startErr' = Errorf(ErrServerStartup, BindError)
    /\ UNCHANGED <<srvCtx, listener, conns>>

\* lines 73-78: ctx.Done() is received; srv.Shutdown(shutdownCtx) is called
\* and closes the listener
BeginShutdown ==
    /\ startpc = "select"
    /\ StartStep
    /\ srvCtx
    /\ startpc' = "draining"
    /\ listener' = IF listener = "open" THEN "closed" ELSE listener
    /\ UNCHANGED <<srvCtx, conns, startErr>>

\* lines 78-81: Shutdown returns nil, no connection serves a request any more
ShutdownCompletes ==
    /\ startpc = "draining"
    /\ StartStep
    /\ \A c \in Conns : conns[c] # "active"
    /\ startpc' = "returned"
    /\ startErr' = NilError
    /\ UNCHANGED <<srvCtx, listener, conns>>

\* lines 75-80: config.ShutdownTimeout passes while a connection still
\* serves a request; Shutdown returns context.DeadlineExceeded and Start
\* returns it wrapped
ShutdownTimesOut ==
    /\ startpc = "draining"
    /\ StartStep
    /\ \E c \in Conns : conns[c] = "active"
    /\ startpc' = "returned"
    /\ startErr' = Errorf(ErrServerShutdown, DeadlineExceeded)
    /\ UNCHANGED <<srvCtx, listener, conns>>

Init == ServerInit /\ EngineInit /\ LogicIdle /\ AppInit /\ StartInit

Next ==
    \/ Tick
    \/ \E w \in Writers, d \in Feeds : UpdateBuild(w, d)
    \/ \E w \in Writers : UpdateStore(w)
    \/ \E r \in Readers, m \in Methods : HandleMethod(r, m)
    \/ \E r \in Readers : HandleLoad(r)
    \/ \E r \in Readers, inm \in IfNoneMatchValues, ims \in IfModifiedSinceValues :
          HandleRespond(r, inm, ims)

Spec == Init /\ [][Next]_vars

NextSync ==
    \/ \E e \in ContextErrors : Cancel(e)
    \/ \E g \in Generators, c \in SyncConfigs : RunSyncCall(g, c)
    \/ \E s \in Streams, e \in AllSourceErrors : AcquireStream(s, e, FALSE)
    \/ \E n \in Nows : AfterAcquire(n)
    \/ LoopCheck
    \/ Decode
    \/ \E encodes \in BOOLEAN : Assemble(encodes)

SpecSync == Init /\ [][NextSync]_vars

\* the steps the goroutine running RunSync takes by itself once
\* acquireStream has returned; the Go scheduler lets a runnable goroutine run
RunSyncSteps ==
    \/ \E n \in Nows : AfterAcquire(n)
    \/ LoopCheck
    \/ Decode
    \/ \E encodes \in BOOLEAN : Assemble(encodes)

NextRun ==
    \/ \E e \in ContextErrors : Cancel(e)
    \/ \E g \in Generators, c \in SyncConfigs : RunSyncCall(g, c)
    \/ \E s \in Streams, e \in AllSourceErrors, b \in BOOLEAN : AcquireStream(s, e, b)
    \/ \E n \in Nows : AfterAcquire(n)
    \/ LoopCheck
    \/ Decode
    \/ \E encodes \in BOOLEAN : Assemble(encodes)

SpecRun == Init /\ [][NextRun]_vars /\ WF_vars(RunSyncSteps)

InitLogic ==
    /\ ServerInit
    /\ EngineInit
    /\ AppInit
    /\ StartInit
    /\ lpc = "called"
    /\ \E n \in ClockDates, p \in ParsedDates :
          largs = [now |-> n, birthDate |-> p.birthDate, yearKnown |-> p.yearKnown]
    /\ lout = NoOut

NextLogic == ProjectRecord

SpecLogic == InitLogic /\ [][NextLogic]_vars

InitParse ==
    /\ ServerInit
    /\ EngineInit
    /\ AppInit
    /\ StartInit
    /\ lpc = "parse"
    /\ \E v \in BdayTexts, n \in Nows : largs = [value |-> v, now |-> n]
    /\ lout = NoParse

NextParse == ParseRecord

InitConfig ==
    /\ ServerInit
    /\ EngineInit
    /\ AppInit
    /\ StartInit
    /\ lpc = "load"
    /\ largs \in ReminderPrefs
    /\ lout = [ReminderTrigger |-> <<>>]

NextConfig == LoadConfig

SpecConfig == InitConfig /\ [][NextConfig]_vars

SpecParse == InitParse /\ [][NextParse]_vars

NextApp ==
    \/ AppCancel
    \/ WorkerStart
    \/ WorkerSetup
    \/ WorkerTick
    \/ WorkerStop
    \/ ManualSync
    \/ \E a \in Syncers, opened \in BOOLEAN : SyncAcquire(a, opened)
    \/ \E a \in Syncers, out \in AllSyncOutcomes : SyncReturn(a, out)
    \/ \E a \in Syncers : ContactsLock(a)
    \/ \E a \in Syncers : ContactsStore(a)
    \/ \E a \in Syncers : ServerUpdate(a)
    \/ OpenContactsWindow
    \/ CopyContacts
    \/ \E col \in SortColumns, asc \in BOOLEAN : PerformSort(col, asc)
    \/ CloseContactsWindow
    \/ \E m \in {"GET", "HEAD"} : HandleMethod("r1", m)
    \/ HandleLoad("r1")
    \/ HandleRespond("r1", NoHeader, NoHeader)

SpecApp == Init /\ [][NextApp]_vars

\* the worker goroutine alone, with the preferences it watches
NextWork ==
    \/ AppCancel
    \/ \E v \in StoredIntervals : SetInterval(v)
    \/ Notify
    \/ WorkerStart
    \/ WorkerSetup
    \/ WorkerConfig
    \/ WorkerTick
    \/ WorkerStop
    \/ \E opened \in BOOLEAN : SyncAcquire("worker", opened)
    \/ \E out \in AllSyncOutcomes : SyncReturn("worker", out)
    \/ ContactsLock("worker")
    \/ ContactsStore("worker")
    \/ ServerUpdate("worker")

\* the steps the worker goroutine takes by itself, with a RunSync that
\* returns: the Go scheduler lets a runnable goroutine run
WorkerRuns ==
    \/ WorkerStart
    \/ WorkerSetup
    \/ \E opened \in BOOLEAN : SyncAcquire("worker", opened)
    \/ \E out \in AllSyncOutcomes : SyncReturn("worker", out)
    \/ ContactsLock("worker")
    \/ ContactsStore("worker")
    \/ ServerUpdate("worker")

\* the listener runs once the value is stored; a select whose case is ready
\* again and again takes it in the end (Go chooses among the ready cases
\* uniformly at random)
SpecWork ==
    /\ Init
    /\ [][NextWork]_vars
    /\ WF_vars(WorkerRuns)
    /\ WF_vars(Notify)
    /\ SF_vars(WorkerConfig)
    /\ SF_vars(WorkerStop)

NextStart ==
    \/ \E port \in Ports : StartCall(port)
    \/ \E bound \in BOOLEAN : ListenAndServe(bound)
    \/ StartCancel
    \/ \E c \in Conns : Connect(c)
    \/ \E c \in Conns : Finish(c)
    \/ StartupFailure
    \/ BeginShutdown
    \/ ShutdownCompletes
    \/ ShutdownTimesOut

SpecStart == Init /\ [][NextStart]_vars

(***************************************************************************)
(* Properties of the feed server, checked under Spec.                      *)
(***************************************************************************)
Answered == response.status # 0
FeedRequest == Answered /\ response.method \in {"GET", "HEAD"}
HasHeader(h) == h \in DOMAIN response.header

\* C1: under every interleaving of requests and Update calls, the ETag,
\* Last-Modified and body of a response made from the cache all belong to one
\* and the same completed Update: the ETag is the tag of that Update's bytes,
\* the Last-Modified is the time that Update read, and the body is exactly
\* those bytes (or empty, on 304 and on HEAD), never a part of them.
C1_NoTornSnapshot ==
    (FeedRequest /\ response.status # StatusServiceUnavailable) =>
        \E u \in completed :
            /\ HasHeader("ETag") /\ response.header["ETag"] = ETagOf(u.data)
            /\ HasHeader("Last-Modified")
            /\ response.header["Last-Modified"] = FormatHTTPTime(u.at)
            /\ response.body.text = ""
            /\ IF response.status = StatusOK /\ response.method = "GET"
               THEN response.body.bytes = u.data
               ELSE response.body.bytes = <<>>

\* C1 witness: a GET is answered 200 with the bytes of the snapshot it
\* loaded, after a concurrent Update has replaced that snapshot by one with
\* other bytes, while the other handler is still holding a loaded pointer.
C1_Witness ==
    /\ response.status = StatusOK /\ response.method = "GET"
    /\ response.item # cache
    /\ Deref(response.item).data # Deref(cache).data
    /\ response.body.bytes = Deref(response.item).data
    /\ \E r \in Readers : rpc[r] = "respond"

\* C2: once an Update has returned, the cache holds the snapshot of the
\* Update that returned last -- its data are that call's bytes and its ETag
\* is the hex digest of those bytes between double quotes -- and the cache
\* changes only in a step in which an Update returns (loads never change it).
C2_CacheHoldsLatest ==
    stored > 0 =>
        /\ latest # <<>> /\ cache # NoItem
        /\ Deref(cache).data = latest[1].data
        /\ LET e == Deref(cache).etag
               n == Len(e)
           IN /\ n >= 2 /\ e[1] = "\"" /\ e[n] = "\""
              /\ SubSeq(e, 2, n - 1) = EncodeToString(Sum256(latest[1].data))
        /\ Deref(cache).lastModified = FormatHTTPTime(latest[1].at)

C2_OnlyUpdateChangesCache == [][cache' # cache => stored' = stored + 1]_vars

C2_LoadReturnsLatest == []C2_CacheHoldsLatest /\ C2_OnlyUpdateChangesCache

\* C2 witness: two Updates have returned, the second with other bytes, and a
\* request has just been answered from the cache.
C2_Witness ==
    /\ stored = 2 /\ Cardinality({u.data : u \in completed}) = 2
    /\ response.status = StatusOK /\ response.item = cache

\* C3: while no Update has returned, every GET or HEAD is answered 503 with
\* Retry-After "10", without an ETag and without feed bytes.
C3_InitializingIs503 ==
    (FeedRequest /\ stored = 0) =>
        /\ response.status = StatusServiceUnavailable
        /\ HasHeader("Retry-After")
        /\ response.header["Retry-After"] = "10"
        /\ ~HasHeader("ETag")
        /\ response.body.bytes = <<>>

\* C3 witness: a HEAD answered 503 while an Update has built its item but
\* not yet stored it.
C3_Witness ==
    /\ response.status = StatusServiceUnavailable /\ response.method = "HEAD"
    /\ stored = 0 /\ \E w \in Writers : wpc[w] = "built"

FromSnapshot == FeedRequest /\ response.item # NoItem
Snapshot == Deref(response.item)
IsStaleETag(inm) == inm \in {ETagOf(f) : f \in Feeds} /\ inm # Snapshot.etag

\* the date of If-Modified-Since is at or after the snapshot's Last-Modified
SinceCoversSnapshot ==
    \E t \in 0..MaxClock :
        /\ response.ims = FormatHTTPTime(t)
        /\ \E u \in 0..t : Snapshot.lastModified = FormatHTTPTime(u)

\* C4 as stated: a GET with the current ETag in If-None-Match gets 304 and
\* an empty body, and a GET with a stale ETag gets 200 and the full body,
\* whatever the other request headers are.
C4_Original ==
    (FromSnapshot /\ response.method = "GET") =>
        /\ response.inm = Snapshot.etag =>
              /\ response.status = StatusNotModified
              /\ response.body = EmptyBody
        /\ IsStaleETag(response.inm) =>
              /\ response.status = StatusOK
              /\ response.body.bytes = Snapshot.data

\* C4 amended: a GET with the current ETag in If-None-Match gets 304 and an
\* empty body whatever the other headers; a GET with a stale ETag gets 200
\* and the full body unless its If-Modified-Since is a date at or after the
\* snapshot's Last-Modified, in which case it gets 304 and an empty body.
C4_ConditionalGet ==
    (FromSnapshot /\ response.method = "GET") =>
        /\ response.inm = Snapshot.etag =>
              /\ response.status = StatusNotModified
              /\ response.body = EmptyBody
        /\ (IsStaleETag(response.inm) /\ ~SinceCoversSnapshot) =>
              /\ response.status = StatusOK
              /\ response.body.bytes = Snapshot.data
        /\ (IsStaleETag(response.inm) /\ SinceCoversSnapshot) =>
              /\ response.status = StatusNotModified
              /\ response.body = EmptyBody

\* C4 witness: a GET carrying a stale ETag together with an If-Modified-Since
\* equal to the snapshot's Last-Modified has been answered 304 with no body.
C4_Witness ==
    /\ FromSnapshot /\ response.method = "GET"
    /\ IsStaleETag(response.inm)
    /\ response.ims = Snapshot.lastModified
    /\ response.status = StatusNotModified /\ response.body = EmptyBody

\* C5: when If-None-Match differs from the snapshot's ETag, the answer is 304
\* exactly when If-Modified-Since is a date not before the snapshot's
\* Last-Modified; when it is absent, not a date, or an earlier date, the
\* answer is 200, with the snapshot's bytes on GET.
C5_IfModifiedSince ==
    (FromSnapshot /\ response.inm # Snapshot.etag) =>
        /\ SinceCoversSnapshot =>
              /\ response.status = StatusNotModified
              /\ response.body = EmptyBody
        /\ ~SinceCoversSnapshot =>
              /\ response.status = StatusOK
              /\ response.method = "GET" => response.body.bytes = Snapshot.data

\* C5 witness: a request without If-None-Match whose If-Modified-Since equals
\* the snapshot's Last-Modified is answered 304.
C5_Witness ==
    /\ FromSnapshot /\ response.inm # Snapshot.etag
    /\ response.ims = Snapshot.lastModified
    /\ response.status = StatusNotModified

\* C6: a request whose method is neither GET nor HEAD is answered 405 with
\* Allow "GET, HEAD", whether or not a snapshot is installed; it gets no feed
\* bytes, no ETag and never a 503.
C6_MethodNotAllowed ==
    (Answered /\ response.method \notin {"GET", "HEAD"}) =>
        /\ response.status = StatusMethodNotAllowed
        /\ HasHeader("Allow") /\ response.header["Allow"] = "GET, HEAD"
        /\ ~HasHeader("ETag")
        /\ response.body.bytes = <<>>

\* C6 witness: a POST answered 405 while a snapshot is installed.
C6_Witness ==
    /\ response.method = "POST" /\ response.status = StatusMethodNotAllowed
    /\ cache # NoItem

\* C7: a HEAD never gets feed bytes; when a snapshot was loaded and neither
\* conditional header applies it is answered 200 with the Content-Type,
\* Cache-Control, ETag and Last-Modified a GET of that snapshot carries.
C7_HeadHasNoBody ==
    (Answered /\ response.method = "HEAD") =>
        /\ response.body.bytes = <<>>
        /\ (/\ response.item # NoItem
            /\ response.inm # Snapshot.etag
            /\ ~SinceCoversSnapshot) =>
              /\ response.status = StatusOK
              /\ {"Content-Type", "Cache-Control", "ETag", "Last-Modified"}
                    \subseteq DOMAIN response.header
              /\ response.header["Content-Type"] = "text/calendar; charset=utf-8"
              /\ response.header["Cache-Control"] = "private, no-cache"
              /\ response.header["ETag"] = Snapshot.etag
              /\ response.header["Last-Modified"] = Snapshot.lastModified

\* C7 witness: a HEAD answered 200 from an installed snapshot.
C7_Witness ==
    /\ response.method = "HEAD" /\ response.status = StatusOK
    /\ response.item # NoItem /\ Snapshot.data # <<>>
    /\ response.body = EmptyBody

(***************************************************************************)
(* Properties of Generator.RunSync, checked under SpecSync.                *)
(***************************************************************************)
Returned == spc = "returned"
ZeroOutput == result.ics = <<>> /\ result.contacts = <<>> /\ result.count = 0

\* C8: a RunSync called with an already cancelled context returns that
\* context's error itself, unwrapped, with nil feed, nil entries and count 0,
\* and has not called Decode once.
C8_CancelledBeforeCall ==
    (Returned /\ cancelledAtCall) =>
        /\ ctxErr \in ContextErrors
        /\ result.err = ctxErr
        /\ ZeroOutput
        /\ decodes = 0

\* C8 witness: the context was cancelled before the call, the local file was
\* opened all the same, and RunSync has returned after closing it.
C8_Witness ==
    /\ Returned /\ cancelledAtCall
    /\ cfg.Mode = SourceModeLocal /\ acq.ok /\ stream # <<>>
    /\ closes = 1

StreamingAtCancel == cancelSeen.at \in {"check", "decode"}

\* C9 as stated: whenever the context is cancelled during streaming, at most
\* the Decode in progress still runs and RunSync returns the raw context
\* error with nil feed, nil entries and count 0.
C9_Original ==
    (Returned /\ StreamingAtCancel) =>
        /\ decodes <= cancelSeen.decodes + 1
        /\ result.err = ctxErr
        /\ ZeroOutput

\* C9 amended: when the context is cancelled during streaming, no Decode is
\* started after the one in progress, if any; RunSync then returns the raw
\* context error with nil feed, nil entries and count 0, dropping what it
\* had accumulated, unless the cancellation arrived after the last check
\* and the Decode in progress found the end of the stream, in which case
\* the cancellation goes unnoticed and the error returned is not the
\* context's.
C9_CancelledWhileStreaming ==
    (Returned /\ StreamingAtCancel) =>
        /\ decodes = cancelSeen.decodes + (IF cancelSeen.at = "decode" THEN 1 ELSE 0)
        /\ IF cancelSeen.at = "decode" /\ cancelSeen.left = 0
           THEN result.err # ctxErr
           ELSE result.err = ctxErr /\ ZeroOutput

\* C9 witness: cancelled while a Decode was in progress, after an entry and
\* its events had been accumulated; RunSync returned the context's error
\* and none of them.
C9_Witness ==
    /\ Returned /\ cancelSeen.at = "decode" /\ cancelSeen.left > 0
    /\ cancelSeen.decodes > 0
    /\ contacts # <<>> /\ children # <<>>
    /\ result.err = ctxErr /\ ZeroOutput

AcquisitionFailed == Returned /\ ~acq.ok

\* C10 as stated: a non-nil error comes with nil feed, nil entries and count
\* 0, and whenever acquisition failed the error returned wraps the error of
\* the file or network operation.
C10_Original ==
    (Returned /\ result.err # NilError) =>
        /\ ZeroOutput
        /\ AcquisitionFailed => ErrorsIs(result.err, acq.err)

\* C10 amended: a non-nil error comes with nil feed, nil entries and count 0;
\* when acquisition failed and the context is not cancelled, the error is
\* the "failed to parse vCard stream" error wrapping the error acquireStream
\* returned; when acquisition failed and the context is cancelled, it is the
\* raw context error.
C10_ErrorMeansZeroOutput ==
    (Returned /\ result.err # NilError) =>
        /\ ZeroOutput
        /\ (AcquisitionFailed /\ ctxErr = NilError) =>
              /\ result.err[1] = "failed to parse vCard stream"
              /\ ErrorsIs(result.err, acq.err)
        /\ (AcquisitionFailed /\ ctxErr # NilError) => result.err = ctxErr

\* C10 witness: the fetcher failed with a network error under a live
\* context and RunSync returned it wrapped.
C10_Witness ==
    /\ Returned /\ ~acq.ok /\ acq.err = FetchError /\ ctxErr = NilError
    /\ ErrorsIs(result.err, FetchError) /\ result.err # FetchError
    /\ ZeroOutput

\* the loop of generateCalendar ran to the end of the stream
ReachedEndOfStream == Returned /\ acq.ok /\ decodes = Len(input) + 1

Layouts ==
    {formatsWithYear[i] : i \in DOMAIN formatsWithYear} \cup
    {formatsWithoutYear[i] : i \in DOMAIN formatsWithoutYear}

\* a record with a problem of its own: it does not decode, has no BDAY, an
\* empty BDAY, or a BDAY no layout parses
HasProblem(card) ==
    \/ card.decodeErr
    \/ card.bday = NoField
    \/ card.bday[1] = EmptyValue
    \/ \A f \in Layouts : ~TimeParse(f, card.bday[1]).ok

\* the entries, in order, of the records of cards without a problem
RECURSIVE EntriesOf(_, _)
EntriesOf(cards, n) ==
    IF cards = <<>> THEN <<>>
    ELSE IF HasProblem(Head(cards)) THEN EntriesOf(Tail(cards), n)
    ELSE <<Entry(Head(cards), parseDate(Head(cards).bday[1]), n)>>
         \o EntriesOf(Tail(cards), n)

\* the events, in order, of the records of cards without a problem
RECURSIVE EventsOf(_, _, _, _)
EventsOf(cards, g, c, n) ==
    IF cards = <<>> THEN <<>>
    ELSE IF HasProblem(Head(cards)) THEN EventsOf(Tail(cards), g, c, n)
    ELSE LET parsed == parseDate(Head(cards).bday[1])
             entry  == Entry(Head(cards), parsed, n)
         IN  createEvents(g.FormatSummary, entry.Name, parsed.t, parsed.yearKnown,
                          c.ReminderTrigger, n, entry.UID).events
             \o EventsOf(Tail(cards), g, c, n)

EncodeFailure == <<"failed to encode iCalendar data">> \o EncodeError

\* C11: a record that does not decode, has no or an empty BDAY, or a BDAY no
\* layout parses never aborts the sync.  Once a reader is acquired the loop
\* stops early only on cancellation; when it reaches the end of the stream
\* the entries and events built are exactly those of the records without a
\* problem, in stream order, and RunSync returns them with a nil error
\* unless the final encoding fails.
C11_RecordProblemsAreSkipped ==
    /\ (Returned /\ acq.ok /\ ~ReachedEndOfStream) =>
          ctxErr \in ContextErrors /\ result.err = ctxErr
    /\ ReachedEndOfStream =>
          /\ contacts = EntriesOf(input, syncNow)
          /\ children = EventsOf(input, gen, cfg, syncNow)
          /\ result.err \in {NilError, EncodeFailure}
          /\ result.err = NilError =>
                /\ result.contacts = EntriesOf(input, syncNow)
                /\ result.ics # <<>>
                /\ result.ics[1].events = EventsOf(input, gen, cfg, syncNow)

\* C11 witness: an unparseable BDAY ahead of a valid record; the sync returned
\* the one entry and its events with a nil error.
C11_Witness ==
    /\ ReachedEndOfStream /\ Len(input) = 2
    /\ ~input[1].decodeErr /\ input[1].bday = Field(Unparseable)
    /\ ~HasProblem(input[2])
    /\ result.err = NilError /\ Len(result.contacts) = 1
    /\ result.ics[1].events # <<>>

\* C12: when the loop reaches the end of the stream with no event produced,
\* RunSync returns a nil error and the fixed minimal calendar: bytes that
\* are not empty, holding the header block and no event.
C12_EmptyFeedIsStub ==
    (ReachedEndOfStream /\ children = <<>>) =>
        /\ result.err = NilError
        /\ result.ics # <<>>
        /\ result.ics = <<StubVCalendar>>
        /\ result.ics[1].props # {}
        /\ result.ics[1].events = <<>>
        /\ result.count = 0

\* C12 witness: the only record is born after the window, so it has an entry
\* and no event, and the stub was returned.
C12_Witness ==
    /\ ReachedEndOfStream /\ Len(input) = 1 /\ ~HasProblem(input[1])
    /\ parseDate(input[1].bday[1]).t.y > syncNow.y + 1
    /\ result.contacts # <<>>
    /\ result.ics = <<StubVCalendar>>

LocalPathGap == cfg.Mode = "local" /\ cfg.LocalPath = ""
WebURLGap == cfg.Mode = "web" /\ cfg.WebURL = ""
FetcherGap == cfg.Mode = "web" /\ cfg.WebURL # "" /\ gen.Fetcher = "nil"
ModeGap == cfg.Mode \notin {"local", "web"}
ConfigurationGap == LocalPathGap \/ WebURLGap \/ FetcherGap \/ ModeGap

GapMessage ==
    IF LocalPathGap THEN "configuration error: local path is empty"
    ELSE IF WebURLGap THEN "configuration error: web URL is empty"
    ELSE IF FetcherGap THEN "internal error: network fetcher is not initialized"
    ELSE "configuration error: unsupported source mode"

\* C13 as stated: with any configuration gap RunSync returns an error that
\* names the gap, and has opened no file and called no fetcher.
C13_Original ==
    (Returned /\ ConfigurationGap) =>
        /\ ErrorsIs(result.err, <<GapMessage>>)
        /\ opens = 0

\* C13 amended: with any configuration gap RunSync opens no file and calls
\* no fetcher, and returns nil, nil, 0 and an error: the error naming the
\* gap, wrapped as a "failed to parse vCard stream" error, when the context
\* is not cancelled, and the raw context error when it is.
C13_ConfigurationGaps ==
    (Returned /\ ConfigurationGap) =>
        /\ opens = 0 /\ closes = 0 /\ decodes = 0
        /\ ZeroOutput
        /\ IF ctxErr = NilError
           THEN result.err = <<"failed to parse vCard stream", GapMessage>>
           ELSE result.err = ctxErr

\* C13 witness: web mode with a URL and no fetcher, under a live context.
C13_Witness ==
    /\ Returned /\ FetcherGap /\ ctxErr = NilError
    /\ result.err = <<"failed to parse vCard stream",
                      "internal error: network fetcher is not initialized">>
    /\ opens = 0

(***************************************************************************)
(* Properties of the date logic, checked under SpecLogic.                  *)
(***************************************************************************)
Projected == lpc = "returned"

YearLength(y) == IF IsLeap(y) THEN 366 ELSE 365

RECURSIVE DaysBeforeMonth(_, _)
DaysBeforeMonth(y, m) ==
    IF m <= 1 THEN 0 ELSE DaysBeforeMonth(y, m - 1) + DaysIn(y, m - 1)

RECURSIVE DaysBeforeYear(_)
DaysBeforeYear(y) ==
    IF y <= 2020 THEN 0 ELSE DaysBeforeYear(y - 1) + YearLength(y - 1)

\* the number of the day t of a year from 2020 on, counted from 2020-01-01
DayNumber(t) == DaysBeforeYear(t.y) + DaysBeforeMonth(t.y, t.m) + t.d

\* C14: for every birth date and every clock value, the date returned by
\* calculateNextOccurrence is today or later, and at most 366 days after
\* today.
C14_NextOccurrenceWithinAYear ==
    Projected =>
        /\ DayNumber(lout.next.nextOcc) >= DayNumber(largs.now)
        /\ DayNumber(lout.next.nextOcc) - DayNumber(largs.now) <= 366

\* C14 witness: a year-known Feb-29 birth date on March 2 of a non-leap
\* year before a leap year: the next occurrence is Feb 29 of the next year.
C14_Witness ==
    /\ Projected /\ largs.yearKnown
    /\ largs.birthDate.m = 2 /\ largs.birthDate.d = 29
    /\ ~IsLeap(largs.now.y) /\ largs.now.m = 3 /\ largs.now.d = 2
    /\ lout.next.nextOcc = [y |-> largs.now.y + 1, m |-> 2, d |-> 29]

SameMonthDay(a, b) == a.m = b.m /\ a.d = b.d
IsFeb29(t) == t.m = 2 /\ t.d = 29

\* Feb 29 carried into year y: Feb 29 of a leap year, March 1 of any other
Feb29In(y) ==
    IF y % 4 = 0 /\ (y % 100 # 0 \/ y % 400 = 0)
    THEN [y |-> y, m |-> 2, d |-> 29]
    ELSE [y |-> y, m |-> 3, d |-> 1]

ProjectedInto(y) == \E i \in DOMAIN lout.made.events : lout.made.events[i].y = y

\* C16: for a Feb-29 birth date, every event is dated Feb 29 of its target
\* year when that year is a leap year and March 1 of it otherwise, and so
\* is the next occurrence in its year; on March 1 of a non-leap year a
\* record projected into that year is flagged as having its birthday today
\* and its next occurrence is that day.
C16_Feb29CarriesToMarch1 ==
    (Projected /\ IsFeb29(largs.birthDate)) =>
        /\ \A i \in DOMAIN lout.made.events :
              lout.made.events[i].date = Feb29In(lout.made.events[i].y)
        /\ lout.next.nextOcc = Feb29In(lout.next.nextOcc.y)
        /\ (largs.now = [y |-> largs.now.y, m |-> 3, d |-> 1]
            /\ Feb29In(largs.now.y).m = 3
            /\ ProjectedInto(largs.now.y)) =>
              /\ lout.made.isToday
              /\ lout.next.nextOcc = largs.now

\* C16 witness: a year-unknown Feb-29 record on 2025-03-01: events dated
\* 2024-02-29, 2025-03-01 and 2026-03-01, flagged as today.
C16_Witness ==
    /\ Projected /\ IsFeb29(largs.birthDate) /\ ~largs.yearKnown
    /\ largs.now = [y |-> 2025, m |-> 3, d |-> 1]
    /\ Len(lout.made.events) = 3
    /\ lout.made.events[1].date = [y |-> 2024, m |-> 2, d |-> 29]
    /\ lout.made.events[2].date = [y |-> 2025, m |-> 3, d |-> 1]
    /\ lout.made.events[3].date = [y |-> 2026, m |-> 3, d |-> 1]
    /\ lout.made.isToday

\* the target years the record is to have an event for
ExpectedYears ==
    {y \in {largs.now.y - 1, largs.now.y, largs.now.y + 1} :
        ~largs.yearKnown \/ y >= largs.birthDate.y}

\* C17: the events of a record are those of the target years
\* {y in {Y-1, Y, Y+1} : year unknown or y >= B}, one each, in ascending
\* order, each dated the birthday's month and day in its year (Feb 29
\* carried to March 1 outside leap years): three when the year is unknown
\* or B <= Y-1, the two of Y and Y+1 when B = Y, none when B > Y+1, and
\* never one for a year before the birth year.
C17_TargetYears ==
    Projected =>
        LET events == lout.made.events
            Y == largs.now.y
            B == largs.birthDate.y
        IN  /\ {events[i].y : i \in DOMAIN events} = ExpectedYears
            /\ Len(events) = Cardinality(ExpectedYears)
            /\ \A i, j \in DOMAIN events : i < j => events[i].y < events[j].y
            /\ \A i \in DOMAIN events :
                  /\ events[i].date.y = events[i].y
                  /\ IF IsFeb29(largs.birthDate)
                     THEN events[i].date = Feb29In(events[i].y)
                     ELSE SameMonthDay(events[i].date, largs.birthDate)
                  /\ largs.yearKnown => events[i].y >= B
            /\ (~largs.yearKnown \/ B <= Y - 1) => Len(events) = 3
            /\ (largs.yearKnown /\ B = Y) =>
                  Len(events) = 2 /\ events[1].y = Y /\ events[2].y = Y + 1
            /\ (largs.yearKnown /\ B > Y + 1) => events = <<>>

\* C17 witness: a record born in the current year has the two events of
\* this year and the next.
C17_Witness ==
    /\ Projected /\ largs.yearKnown /\ largs.birthDate.y = largs.now.y
    /\ Len(lout.made.events) = 2
    /\ lout.made.events[1].y = largs.now.y
    /\ lout.made.events[2].y = largs.now.y + 1

\* C18: with the formatter of the UI, every event of a year-known record has
\* the summary made for age target year - birth year, which is never
\* negative: the birth message, without an age, in the birth year and the
\* age message with that age in later years; every event of a year-unknown
\* record has the plain message, made for an unknown year and age 0.
C18_AgeInSummary ==
    Projected =>
        \A i \in DOMAIN lout.made.events :
            LET e   == lout.made.events[i]
                age == e.y - largs.birthDate.y
            IN  IF largs.yearKnown
                THEN /\ age >= 0
                     /\ e.summary = IF age = 0
                                    THEN [msg |-> "birth", name |-> "Bob", age |-> 0]
                                    ELSE [msg |-> "age", name |-> "Bob", age |-> age]
                ELSE e.summary = [msg |-> "plain", name |-> "Bob", age |-> 0]

\* C18 witness: a record born in the current year: the event of this year is
\* labelled as the birth, the event of next year carries age 1.
C18_Witness ==
    /\ Projected /\ largs.yearKnown /\ largs.birthDate.y = largs.now.y
    /\ Len(lout.made.events) = 2
    /\ lout.made.events[1].summary.msg = "birth"
    /\ lout.made.events[2].summary = [msg |-> "age", name |-> "Bob", age |-> 1]

(***************************************************************************)
(* Further properties of Generator.RunSync, checked under SpecSync.        *)
(***************************************************************************)
ReturnedFeed == Returned /\ result.err = NilError

\* the returned entries whose birthday has the month and day of the clock
BirthdayIsToday ==
    {i \in DOMAIN result.contacts : SameMonthDay(result.contacts[i].DateOfBirth, syncNow)}

\* an entry with an unknown birth year or a birth year up to the current one
BornBy(e, y) == ~e.YearKnown \/ e.DateOfBirth.y <= y

\* the returned entries with an event dated today: born by this year, with
\* the month and day of the clock or Feb 29 carried to today's March 1
HasEventToday ==
    {i \in DOMAIN result.contacts :
        /\ BornBy(result.contacts[i], syncNow.y)
        /\ \/ SameMonthDay(result.contacts[i].DateOfBirth, syncNow)
           \/ /\ IsFeb29(result.contacts[i].DateOfBirth)
              /\ Feb29In(syncNow.y) = syncNow}

\* C15 as stated: every record whose birthday has the clock's month and day
\* has today as its next occurrence and is counted in the today-count.
C15_Original ==
    ReturnedFeed =>
        /\ \A i \in BirthdayIsToday : result.contacts[i].NextOccurrence = syncNow
        /\ result.count >= Cardinality(BirthdayIsToday)

\* C15 amended: every record whose birthday has the clock's month and day
\* has today as its next occurrence; it is flagged and counted in the
\* today-count when its birth year is unknown or not after the current
\* year, and the today-count is exactly the number of records with an event
\* dated today.
C15_BirthdayToday ==
    ReturnedFeed =>
        /\ \A i \in BirthdayIsToday : result.contacts[i].NextOccurrence = syncNow
        /\ {i \in BirthdayIsToday : BornBy(result.contacts[i], syncNow.y)}
              \subseteq HasEventToday
        /\ result.count = Cardinality(HasEventToday)

\* C15 witness: on 2025-03-01 a record born 1990-03-01 was returned with
\* today as next occurrence and counted.
C15_Witness ==
    /\ ReturnedFeed /\ syncNow = [y |-> 2025, m |-> 3, d |-> 1]
    /\ Len(result.contacts) = 1
    /\ result.contacts[1].DateOfBirth = [y |-> 1990, m |-> 3, d |-> 1]
    /\ result.contacts[1].NextOccurrence = syncNow
    /\ result.count = 1

\* C19: the identifier of an entry depends on its name and resolved birth
\* date alone: in every state of every sync, whatever the clock, the
\* configuration, the position in the stream and the other records, it is
\* the digest of that name and that date, so two entries with the same name
\* and birth date have the same identifier.
C19_IdentifierIsDeterministic ==
    /\ \A i \in DOMAIN contacts :
          contacts[i].UID =
              <<contacts[i].Name, contacts[i].DateOfBirth.y, contacts[i].DateOfBirth.m,
                contacts[i].DateOfBirth.d, "go-birthday-v1-">>
    /\ \A i, j \in DOMAIN contacts :
          (/\ contacts[i].Name = contacts[j].Name
           /\ contacts[i].DateOfBirth = contacts[j].DateOfBirth)
              => contacts[i].UID = contacts[j].UID

\* C19 witness: the same name and birth date at two positions of one stream,
\* with the same identifier.
C19_Witness ==
    /\ Returned /\ Len(contacts) = 2
    /\ contacts[1].Name = contacts[2].Name
    /\ contacts[1].DateOfBirth = contacts[2].DateOfBirth
    /\ contacts[1].UID = contacts[2].UID

\* C20: in every feed returned, no two events carry the same UID.
C20_EventUIDsAreUnique ==
    ReturnedFeed =>
        \A i, j \in DOMAIN result.ics[1].events :
            i # j => result.ics[1].events[i].uid # result.ics[1].events[j].uid


(***************************************************************************)
(* Properties of parseDate, checked under SpecParse.                       *)
(***************************************************************************)
Parsed == lpc = "parsed"

YearBearing ==
    {DateFormatFullDash, DateFormatFullBasic, DateFormatRFC3339, DateFormatFullT}
YearOmitted == {DateFormatNoYearD, DateFormatNoYearB}

\* the digits of the text are a date of the calendar (of year 0, a leap
\* year, when the text has no year)
IsCalendarDate(v) == v.m \in 1..12 /\ v.d \in 1..DaysIn(v.y, v.m)

\* C21: a text in a year-bearing layout parses to its own date with the year
\* known; a text in a year-omitted layout parses to its month and day in the
\* sentinel leap year 2000 (Feb 29 stays Feb 29) with the year unknown, and
\* its entry has AgeNext = 0; an empty value, a text of no layout or digits
\* of no calendar date yield the parse error and no entry.
C21_YearUnknownUsesSentinel ==
    Parsed =>
        LET v == largs.value
            p == lout.parsed
        IN  /\ (v.layout \in YearBearing /\ IsCalendarDate(v)) =>
                   /\ p = [t |-> [y |-> v.y, m |-> v.m, d |-> v.d],
                           yearKnown |-> TRUE, err |-> NilError]
                   /\ ~lout.skipped
                   /\ lout.entry.YearKnown
                   /\ lout.entry.DateOfBirth = p.t
            /\ (v.layout \in YearOmitted /\ IsCalendarDate(v)) =>
                   /\ p = [t |-> [y |-> 2000, m |-> v.m, d |-> v.d],
                           yearKnown |-> FALSE, err |-> NilError]
                   /\ ~lout.skipped
                   /\ ~lout.entry.YearKnown
                   /\ lout.entry.DateOfBirth = [y |-> 2000, m |-> v.m, d |-> v.d]
                   /\ lout.entry.AgeNext = 0
            /\ (v.layout \notin (YearBearing \cup YearOmitted) \/ ~IsCalendarDate(v)) =>
                   /\ p.err = <<ErrDateParse>>
                   /\ lout.skipped
                   /\ lout.entry = NoEntry

\* a Feb 29 written without a year is parsed, the year is the sentinel
C21_Witness ==
    /\ Parsed
    /\ largs.value = BdayText(DateFormatNoYearD, 0, 2, 29)
    /\ lout.entry.DateOfBirth = [y |-> 2000, m |-> 2, d |-> 29]
    /\ ~lout.entry.YearKnown
    /\ lout.entry.AgeNext = 0


(***************************************************************************)
(* Further properties of RunSync, checked under SpecSync: the today-count  *)
(* and the alarms.                                                         *)
(***************************************************************************)
FeedEvents == result.ics[1].events

\* the returned entries one of whose events, in the returned feed, is dated
\* the day the clock gave
RecordsWithEventToday ==
    {i \in DOMAIN result.contacts :
        \E k \in DOMAIN FeedEvents :
            /\ FeedEvents[k].uid[1] = result.contacts[i].UID
            /\ FeedEvents[k].date = syncNow}

\* C29: the today-count of a successful RunSync is the number of records
\* (not of events) with some event dated the sync-time current date; it never
\* exceeds the number of returned entries.
C29_TodayCountsRecords ==
    ReturnedFeed =>
        /\ result.count = Cardinality(RecordsWithEventToday)
        /\ result.count <= Len(result.contacts)

\* C29 witness: two entries and at least three events returned, one record
\* has its birthday today.
C29_Witness ==
    /\ ReturnedFeed
    /\ Len(result.contacts) = 2
    /\ Len(FeedEvents) >= 3
    /\ result.count = 1

\* C30: an event carries an alarm exactly when the configured reminder
\* trigger is non-empty; then every event of the feed carries one alarm, with
\* action DISPLAY, the configured trigger verbatim and the event's own
\* summary as description.
C30_AlarmFollowsTrigger ==
    ReturnedFeed =>
        \A k \in DOMAIN FeedEvents :
            IF cfg.ReminderTrigger = ""
            THEN FeedEvents[k].alarm = <<>>
            ELSE /\ Len(FeedEvents[k].alarm) = 1
                 /\ FeedEvents[k].alarm[1].action = "DISPLAY"
                 /\ FeedEvents[k].alarm[1].trigger = cfg.ReminderTrigger
                 /\ FeedEvents[k].alarm[1].description = FeedEvents[k].summary

\* C30 witness: a feed synced with the trigger -P1D, every one of its events
\* carries the alarm.
C30_Witness ==
    /\ ReturnedFeed
    /\ cfg.ReminderTrigger = "-P1D"
    /\ Len(FeedEvents) >= 3
    /\ \A k \in DOMAIN FeedEvents : FeedEvents[k].alarm # <<>>


(***************************************************************************)
(* Termination of RunSync, checked under SpecRun.                          *)
(***************************************************************************)

\* C25: every RunSync invocation whose acquisition has returned eventually
\* returns (Done, Failed or Cancelled); in particular, once the stream is
\* acquired and the context is never cancelled, the decode loop ends for
\* every input stream, streams on which the decoder reports errors included.
C25_RunSyncTerminates == (spc = "acquired") ~> Returned


(***************************************************************************)
(* Properties of the application, checked under SpecApp.                   *)
(***************************************************************************)
InFlight == {"run", "stream", "swap", "locked", "update"}
Failed(r) == r # NoOutcome /\ r[1].err # NilError

\* C22: a sync that fails or is cancelled leaves the cache slot and the
\* display-entries list as they were: no step of a goroutine whose RunSync
\* has not returned, or has returned an error, changes app.Contacts or the
\* cache, so the endpoint keeps serving the previous feed and ETag.
C22_FailedSyncChangesNothing ==
    [][\A a \in Syncers :
          (apc'[a] # apc[a] /\ ~Succeeded(ares'[a])) =>
              (cache' = cache /\ Contacts' = Contacts /\ installed' = installed)]_vars

\* C22 witness: after a successful sync a later one was cancelled; a GET is
\* answered 200 with the feed of the successful one, the list is its list.
C22_Witness ==
    /\ \E a \in Syncers :
          apc[a] = "idle" /\ Failed(ares[a]) /\ ares[a][1].err = Canceled
    /\ \A a \in Syncers : apc[a] \notin InFlight
    /\ Contacts = SomeContacts
    /\ response.status = StatusOK
    /\ response.body.bytes = FeedBytes
    /\ response.header["ETag"] = ETagOf(FeedBytes)

C24_NoAutomaticRetry ==
    \A a \in Syncers :
        /\ calls[a] = trigs[a]
        /\ acqs[a] <= calls[a]
        /\ apc[a] \in InFlight => trigs[a] = 1
        /\ apc[a] \notin InFlight => (trigs[a] = 0 /\ acqs[a] = 0)

\* C24 witness: the worker's sync failed after one acquisition attempt and
\* the worker is back in its loop, nothing pending.
C24_Witness ==
    /\ apc["worker"] = "idle"
    /\ ares["worker"] = <<SyncOutcome(<<>>, <<>>, 0, Errorf(ErrVCardParse, FetchError))>>
    /\ calls["worker"] = 0
    /\ acqs["worker"] = 0

\* C26: at most one sync is in flight at any time, for every interleaving of
\* the initial sync, the ticks and the manual syncs.
C26_OneSyncInFlight ==
    Cardinality({a \in Syncers : apc[a] \in InFlight}) <= 1

\* C28: the window copies app.Contacts under the read lock and a sync
\* replaces it under the write lock, never both at once; the copy is
\* entirely the list app.Contacts held when the window took the lock,
\* sorting rearranges that copy only, and app.Contacts is always a list
\* exactly as some sync returned it.
C28_DisplayReadsAreSnapshots ==
    /\ rlocks > 0 => wlock = ""
    /\ wlock # "" => rlocks = 0
    /\ dpc = "sized" => (rlocks = 1 /\ Contacts = dsnap /\ Len(display) = Len(dsnap))
    /\ dpc = "copied" => display = dsnap
    /\ dpc = "open" => display \in Rearrangements(dsnap)
    /\ dpc # "closed" => dsnap \in installed
    /\ Contacts \in installed

\* C28 witness: the window shows its copy of the two entries, sorted into
\* another order, while a sync that will replace the list waits at the lock;
\* app.Contacts still is the list as the earlier sync returned it.
C28_Witness ==
    /\ dpc = "open"
    /\ dsnap = SomeContacts
    /\ display # SomeContacts
    /\ Contacts = SomeContacts
    /\ \E a \in Syncers : apc[a] = "swap" /\ ares[a][1].contacts = <<>>

(***************************************************************************)
(* Properties of Start, checked under SpecStart.                           *)
(***************************************************************************)
ShutdownFailure == Errorf(ErrServerShutdown, DeadlineExceeded)

\* C27: once Start shuts the server down no new connection is accepted;
\* when Start has returned from the shutdown, in time or not, no connection
\* is left serving a request (what the grace period left was force-closed);
\* Start returns nil when the requests finished in time, and the startup
\* error when the listener failed and the context was not cancelled.
C27_ShutdownClosesEverything ==
    /\ startpc = "draining" => listener # "open"
    /\ (startpc = "returned" /\ startErr \in {NilError, ShutdownFailure}) =>
          /\ listener # "open"
          /\ \A c \in Conns : conns[c] # "active"
    /\ (startpc = "returned" /\ listener = "failed" /\ ~srvCtx) =>
          startErr = Errorf(ErrServerStartup, BindError)

(***************************************************************************)
(* Further properties of Generator.RunSync, checked under SpecSync.        *)
(***************************************************************************)
\* the context was cancelled no later than the moment acquireStream returned
CancelledByAcquisition == cancelSeen.at \in {"idle", "acquire"}

\* C34: when acquireStream returns an error (a configuration gap, or the
\* error of os.Open or of the fetcher) and the context is cancelled by then,
\* RunSync returns the context's error itself, not the "failed to parse
\* vCard stream" error wrapping what acquireStream returned.
C34_CancellationTakesPrecedence ==
    (Returned /\ AcquisitionFailed /\ CancelledByAcquisition) =>
        /\ ctxErr \in ContextErrors
        /\ result.err = ctxErr
        /\ result.err[1] # ErrVCardParse
        /\ ~ErrorsIs(result.err, acq.err)

\* C34 witness: the context was cancelled while acquireStream ran, the
\* configuration names an unsupported mode, and RunSync returned the
\* context's error.
C34_Witness ==
    /\ Returned /\ AcquisitionFailed /\ cancelSeen.at = "acquire"
    /\ acq.err = <<ErrModeUnsupport>>
    /\ result.err = Canceled

\* C37: for every entry RunSync returns, AgeNext is the year of
\* NextOccurrence minus the birth year and is not negative when the year is
\* known, and is 0 when it is not.
C37_AgeNextNeverNegative ==
    ReturnedFeed =>
        \A i \in DOMAIN result.contacts :
            LET e == result.contacts[i]
            IN  IF e.YearKnown
                THEN /\ e.AgeNext = e.NextOccurrence.y - e.DateOfBirth.y
                     /\ e.AgeNext >= 0
                ELSE e.AgeNext = 0

\* C35: a stream RunSync acquired is closed exactly once, by the time
\* RunSync returns and not before, whichever way RunSync returns (feed,
\* stub, cancellation before or during decoding, encoding failure); when
\* acquireStream failed RunSync closes nothing.
C35_StreamClosedOnce ==
    /\ closes <= opens /\ opens <= 1
    /\ ~Returned => closes = 0
    /\ (Returned /\ acq.ok) => (opens = 1 /\ closes = 1)
    /\ (Returned /\ ~acq.ok) => closes = 0

\* C35 witness: the stream was acquired, the context was cancelled while it
\* was being decoded, and RunSync returned the context's error with the
\* stream closed once.
C35_Witness ==
    /\ Returned /\ acq.ok /\ StreamingAtCancel /\ result.err = ctxErr
    /\ opens = 1 /\ closes = 1

(***************************************************************************)
(* Further properties of the application, checked under SpecApp.           *)
(***************************************************************************)
\* the step in which a performSync returns from app.Server.Update
UpdateCompletes == \E a \in Syncers : apc[a] = "update" /\ apc'[a] = "idle"

\* C36: every Update leaves an item in the cache slot, no step empties the
\* slot again, whatever syncs fail or succeed afterwards, and while the
\* slot holds an item no GET or HEAD request is answered 503.
C36_CacheNeverAbsentAgain ==
    /\ [][/\ UpdateCompletes => cache' # NoItem
          /\ cache # NoItem => cache' # NoItem]_vars
    /\ [](cache # NoItem => response.status # StatusServiceUnavailable)

\* C38: whenever no sync is in flight, the display entries app.Contacts
\* holds and the feed the cache holds are the entries and the feed of one
\* and the same successful sync: overlapping syncs never leave the entries
\* of one sync paired with the feed of another.
C38_EntriesAndFeedFromSameSync ==
    ((\A a \in Syncers : apc[a] \notin InFlight) /\ cache # NoItem) =>
        \E out \in AllSyncOutcomes :
            /\ out.err = NilError
            /\ Contacts = out.contacts
            /\ Deref(cache).data = out.ics

\* C36 witness: a feed is installed, the last sync of the worker and the
\* last manual sync have both failed since, and a request is answered 200.
C36_Witness ==
    /\ cache # NoItem
    /\ \A a \in Syncers : apc[a] = "idle" /\ Failed(ares[a])
    /\ FeedRequest /\ response.status = StatusOK

(***************************************************************************)
(* A further property of the feed server, checked under Spec.              *)
(***************************************************************************)
\* the request carries validators, and only validators the snapshot of the
\* Update prev gave out
ValidatorsOf(prev) ==
    /\ response.inm \in {NoHeader, ETagOf(prev.data)}
    /\ response.ims \in {NoHeader, FormatHTTPTime(prev.at)}
    /\ response.inm # NoHeader \/ response.ims # NoHeader

\* C39: when the Update that completed last installed bytes that differ
\* from an earlier snapshot's, a conditional request answered from the new
\* snapshot and carrying only the earlier snapshot's validators (its ETag
\* in If-None-Match, its Last-Modified in If-Modified-Since, or both) is
\* answered 200, with the new bytes for a GET, also when both Updates
\* happened within the same second.
C39_No304ForUnseenContent ==
    \A prev \in completed :
        (/\ FromSnapshot
         /\ latest # <<>>
         /\ latest[1].data # prev.data
         /\ Snapshot = NewCacheItem(latest[1].data, latest[1].at)
         /\ ValidatorsOf(prev))
        => /\ response.status = StatusOK
           /\ response.method = "GET" => response.body.bytes = latest[1].data

(***************************************************************************)
(* A property of loadSyncConfig, checked under SpecConfig.                 *)
(***************************************************************************)
Loaded == lpc = "loaded"

\* the number a text of decimal digits stands for
RECURSIVE ParseDigits(_)
ParseDigits(s) ==
    IF s = <<>> THEN 0
    ELSE 10 * ParseDigits(SubSeq(s, 1, Len(s) - 1)) + DigitValue(s[Len(s)])

\* the preferences as loadSyncConfig reads them, fallbacks applied
ReminderValue == IF largs.val = <<>> THEN 1 ELSE largs.val[1]
ReminderUnit  == IF largs.unit = <<>> THEN "d" ELSE largs.unit[1]
ReminderDir   == IF largs.dir = <<>> THEN "before" ELSE largs.dir[1]

\* C31: the trigger is empty when reminders are disabled; otherwise it is
\* the sign ("-P" for direction before, "P" for after), the value in
\* decimal, and one unit letter: H for hours, M for minutes, D for days and
\* for any other unit; 1 day before gives "-P1D", 2 hours after "P2H".
C31_TriggerFromPreferences ==
    Loaded =>
        LET t == lout.ReminderTrigger
            n == IF ReminderDir = "before" THEN 2 ELSE 1
        IN  IF ~largs.enabled THEN t = <<>>
            ELSE /\ Len(t) >= n + 2
                 /\ SubSeq(t, 1, n) = (IF ReminderDir = "before" THEN <<"-", "P">>
                                        ELSE <<"P">>)
                 /\ ParseDigits(SubSeq(t, n + 1, Len(t) - 1)) = ReminderValue
                 /\ \A i \in n + 1..Len(t) - 1 : \E k \in 1..10 : DecChars[k] = t[i]
                 /\ t[Len(t)] = (CASE ReminderUnit = "h" -> "H"
                                   [] ReminderUnit = "m" -> "M"
                                   [] OTHER -> "D")
                 /\ (ReminderValue = 1 /\ ReminderUnit = "d" /\ ReminderDir = "before")
                        => t = <<"-", "P", "1", "D">>
                 /\ (ReminderValue = 2 /\ ReminderUnit = "h" /\ ReminderDir = "after")
                        => t = <<"P", "2", "H">>

\* C31 witness: reminders enabled, 30 minutes before: "-P30M".
C31_Witness ==
    /\ Loaded /\ largs.enabled
    /\ largs.val = <<30>> /\ largs.unit = <<"m">> /\ largs.dir = <<"before">>
    /\ lout.ReminderTrigger = <<"-", "P", "3", "0", "M">>

(***************************************************************************)
(* Properties of backgroundWorker and the preferences, checked under       *)
(* SpecWork.                                                               *)
(***************************************************************************)
\* the worker, in its loop, receives a tick and calls performSync(false)
TickSync == apc["worker"] = "idle" /\ cur # 0 /\ apc'["worker"] = "run"

\* C32: an interval saved as empty or 0 is stored as 0 and means disabled:
\* while the stored interval is 0 and the worker has read it, the worker
\* starts no sync on a tick.
C32_ZeroIntervalDisablesTicker ==
    [][(pref = DisabledInterval /\ lastRead = DisabledInterval) => ~TickSync]_vars

\* C33: whatever preference changes are made, in bursts or while a sync
\* runs, every stored value v is followed by the worker having read v and
\* running its ticker at v (unless the value is changed again or the
\* application quits first), and the listener can always complete its send.
C33_WorkerFollowsInterval ==
    /\ \A v \in StoredIntervals \cup {DefaultRefreshMin} :
          (pref = v) ~> (pref # v \/ appCtx # NilError \/ (lastRead = v /\ cur = v))
    /\ [](fired = 1 => ENABLED Notify)

\* C40: once the application context is cancelled the worker, in its loop,
\* starts no sync, whatever tick or configuration change is pending, and it
\* eventually leaves the loop.
C40_WorkerStopsAfterCancel ==
    /\ [][appCtx # NilError => ~TickSync]_vars
    /\ (appCtx # NilError) ~> (apc["worker"] = "stopped")

====
